---- MODULE Spec2Model ----
(***************************************************************************)
(* A model of the PWHL scraper: the SQLite store behind one connection     *)
(* (committed rows and the connection's working view), the basic-info      *)
(* scrapers, the player scraper, the play-by-play backfill query, the      *)
(* database helpers and the API client.                                    *)
(***************************************************************************)
EXTENDS Integers, Sequences, FiniteSets, TLC

VARIABLES
    dbFile,    \* the database file: "absent", "empty" (no tables) or "ready"
    disk,      \* the committed rows of every table
    work,      \* the rows the open connection sees (committed + its open transaction)
    fkOn,      \* PRAGMA foreign_keys of the connection
    connOpen,  \* whether the connection is open
    call,      \* the last operation: its name, input, result and what it did
    api,       \* the API client: clock, last_request_time, the fetch in progress
    schema,    \* the static index definitions of the schema: groups of statements
    indexes    \* the names of the indexes the database file holds

vars == <<dbFile, disk, work, fkOn, connOpen, call, api, schema, indexes>>

(***************************************************************************)
(* Bounds of the model.                                                    *)
(***************************************************************************)
MaxBatch == 2        \* records in one list given to an update_* scraper
MaxPlayerId == 1     \* player ids 1..MaxPlayerId
MaxGameId == 2       \* game ids 1..MaxGameId
MaxEventRows == 2    \* event rows over the eight play-by-play tables
MaxIndexes == 2      \* index statements in one group of the schema
MaxEvents == 2       \* events in one play-by-play payload
MaxFeed == 1         \* records in each list the client fetches for update_basic_info
MaxLimit == 2        \* the largest limit passed to update_play_by_play
MaxRetries == 2      \* the client's max_retries
MaxClock == 6        \* the latest time, in tenths of a second, a fetch starts at
RetryDelay == 1      \* the wait after a failed attempt, in tenths of a second

(***************************************************************************)
(* Python values.  A dictionary is a function whose DOMAIN is its keys;    *)
(* None is the string PyNone, True the string PyTrue, so that every field  *)
(* holds either a string or an integer and never both.                     *)
(***************************************************************************)
PyNone == "<None>"
PyTrue == "<True>"

Get(d, k, default) == IF k \in DOMAIN d THEN d[k] ELSE default

\* int(s) for the strings the API sends: decimal digits parse, anything else
\* raises ValueError.
Digits == <<"0", "1", "2", "3", "4", "5", "6", "7", "8", "9">>

IsNumeric(s) == \E i \in DOMAIN Digits : Digits[i] = s

ToInt(s) == (CHOOSE i \in DOMAIN Digits : Digits[i] = s) - 1

\* An int-or-None value is a sequence: <<>> is None, <<n>> is the integer n.
NoneInt == <<>>

Some(n) == <<n>>

\* bool(v) of a string-or-None value and of an int-or-None value
TruthyStr(v) == v \notin {PyNone, ""}

TruthyInt(v) == v \notin {NoneInt, Some(0)}

\* left fold of a list, as a for loop runs
RECURSIVE ForEach(_, _, _)
ForEach(Step(_, _), st, list) ==
    IF list = <<>> THEN st ELSE ForEach(Step, Step(st, Head(list)), Tail(list))

\* the lists of at most n elements of S
ListsUpTo(S, n) == UNION {[1..k -> S] : k \in 0..n}

(***************************************************************************)
(* The store.  A table is a function from primary keys to rows.            *)
(***************************************************************************)
PbpTables == {"pbp_faceoffs", "pbp_shots", "pbp_goals", "pbp_hits", "pbp_penalties",
              "pbp_blocked_shots", "pbp_goalie_changes", "pbp_shootouts"}

GoalSubTables == {"pbp_goals_plus", "pbp_goals_minus"}

TableNames == {"leagues", "conferences", "divisions", "seasons", "teams",
               "players", "games"} \cup PbpTables \cup GoalSubTables

EmptyTable == <<>>

EmptyDb == [t \in TableNames |-> EmptyTable]

(***************************************************************************)
(* Index creation.  An index statement names its index and the table it is *)
(* on; it is CREATE INDEX IF NOT EXISTS, so it succeeds on an index that    *)
(* is already there, and it fails (sqlite3.OperationalError) when the file *)
(* has no such table.                                                      *)
(***************************************************************************)
IndexStatements ==
    {[name |-> "idx_games_season", on |-> "games"],
     [name |-> "idx_players_team", on |-> "players"],
     [name |-> "idx_lineups_game", on |-> "lineups"]}

\* whether cursor.execute(index_sql) raises
IndexFails(file, index_sql) == file # "ready" \/ index_sql.on \notin TableNames

\* a mutant: the first failure ends the loop
CreateIndexStepStops(file, st, index_sql) ==
    IF st.logged > 0 THEN st
    ELSE [st EXCEPT !.executed = Append(@, index_sql),
                    !.indexes = IF IndexFails(file, index_sql) THEN @
                                ELSE @ \cup {index_sql.name},
                    !.logged = IF IndexFails(file, index_sql) THEN @ + 1 ELSE @]

\* one turn of the loop of create_indexes (try, log on sqlite3.Error, go on): the
\* statements executed so far, the indexes in the file and the errors logged
CreateIndexStep(file, st, index_sql) ==
    [st EXCEPT !.executed = Append(@, index_sql),
               !.indexes = IF IndexFails(file, index_sql) THEN @ ELSE @ \cup {index_sql.name},
               !.logged = IF IndexFails(file, index_sql) THEN @ + 1 ELSE @]

\* create_indexes(conn, indexes), starting from a run st
create_indexes(file, st, index_list) ==
    LET Step(acc, index_sql) == CreateIndexStep(file, acc, index_sql)
    IN ForEach(Step, st, index_list)

IndexRun(idx) == [executed |-> <<>>, indexes |-> idx, logged |-> 0]

\* the schemas of the model: one group, or two groups of one statement
SchemaChoices ==
    {<<g>> : g \in ListsUpTo(IndexStatements, MaxIndexes)}
    \cup {<<g1, g2>> : g1 \in ListsUpTo(IndexStatements, 1) \ {<<>>},
                       g2 \in ListsUpTo(IndexStatements, 1) \ {<<>>}}

DefaultSchema ==
    <<<<[name |-> "idx_games_season", on |-> "games"]>>,
      <<[name |-> "idx_players_team", on |-> "players"]>>>>

\* the indexes a set-up file holds
SetupIndexes(sch) ==
    LET Group(acc, group) == create_indexes("ready", acc, group)
    IN ForEach(Group, IndexRun({}), sch).indexes

Rows(db, t) == DOMAIN db[t]

RowCount(db, t) == Cardinality(DOMAIN db[t])

\* SELECT id FROM t WHERE id = ?  followed by fetchone()
Exists(db, t, id) == id \in DOMAIN db[t]

\* INSERT INTO t (id, cols...) VALUES (...)
SqlInsert(db, t, id, row) ==
    [db EXCEPT ![t] = [i \in DOMAIN @ \cup {id} |-> IF i = id THEN row ELSE @[i]]]

\* a mutant: the UPDATE's WHERE clause matches no row
SqlUpdateMisses(db, t, id, cols) == db

\* UPDATE t SET cols... WHERE id = ?: the named columns change, the others stay
SqlUpdate(db, t, id, cols) ==
    [db EXCEPT ![t] = [i \in DOMAIN @ |-> IF i = id THEN cols @@ @[i] ELSE @[i]]]

\* a mutant: the existing row is not found and the record is inserted under a
\* fresh rowid
UpsertAppends(db, t, id, row, cols) ==
    IF Exists(db, t, id)
    THEN LET fresh == CHOOSE n \in 1..(Cardinality(DOMAIN db[t]) + 10) :
                         /\ n \notin DOMAIN db[t]
                         /\ \A m \in DOMAIN db[t] : m < n
         IN SqlInsert(db, t, fresh, row)
    ELSE SqlInsert(db, t, id, row)

\* the scrapers' existence check followed by UPDATE or INSERT
Upsert(db, t, id, row, cols) ==
    IF Exists(db, t, id) THEN SqlUpdate(db, t, id, cols) ELSE SqlInsert(db, t, id, row)

(***************************************************************************)
(* The schema's foreign keys (team -> division -> conference -> league),   *)
(* enforced at each statement when the connection has foreign_keys = ON.   *)
(* A NULL child key refers to nothing and passes.                          *)
(***************************************************************************)
FkViolation(db, t, row) ==
    /\ t = "teams"
    /\ \/ /\ row.league_id # NoneInt
          /\ row.league_id[1] \notin Rows(db, "leagues")
       \/ /\ row.division_id # NoneInt
          /\ row.division_id[1] \notin Rows(db, "divisions")
       \/ /\ row.conference_id # NoneInt
          /\ row.conference_id[1] \notin Rows(db, "conferences")

(***************************************************************************)
(* basic_info.py.  A scraper run carries the connection's view of the      *)
(* rows, the count it will return, how many of its records took the UPDATE *)
(* branch, and the exception that ended it ("" for none); a raised         *)
(* exception ends the loop with the rows written so far.                   *)
(***************************************************************************)
Start(db) == [db |-> db, count |-> 0, updated |-> 0, err |-> ""]

\* int(d.get(key, 0)): the value, or the ValueError of a non-numeric string
IntField(d, key) ==
    IF key \notin DOMAIN d THEN [ok |-> TRUE, val |-> 0]
    ELSE IF IsNumeric(d[key]) THEN [ok |-> TRUE, val |-> ToInt(d[key])]
    ELSE [ok |-> FALSE, val |-> 0]

\* a mutant: a record without an id is counted, though not written
LeagueStepCountsSkipped(st, league) ==
    IF st.err # "" THEN st
    ELSE LET id == IntField(league, "id") IN
         IF ~id.ok THEN [st EXCEPT !.err = "ValueError"]
         ELSE IF id.val = 0 THEN [st EXCEPT !.count = @ + 1]
         ELSE LET cols == [name |-> Get(league, "name", ""),
                           short_name |-> Get(league, "short_name", ""),
                           code |-> Get(league, "code", ""),
                           logo |-> Get(league, "logo_image", "")]
              IN [st EXCEPT !.db = Upsert(st.db, "leagues", id.val, cols, cols),
                            !.count = @ + 1,
                            !.updated = IF Exists(st.db, "leagues", id.val) THEN @ + 1 ELSE @]

LeagueStep(st, league) ==
    IF st.err # "" THEN st
    ELSE LET id == IntField(league, "id") IN
         IF ~id.ok THEN [st EXCEPT !.err = "ValueError"]
         ELSE IF id.val = 0 THEN st
         ELSE LET cols == [name |-> Get(league, "name", ""),
                           short_name |-> Get(league, "short_name", ""),
                           code |-> Get(league, "code", ""),
                           logo |-> Get(league, "logo_image", "")]
              IN [st EXCEPT !.db = Upsert(st.db, "leagues", id.val, cols, cols),
                            !.count = @ + 1,
                            !.updated = IF Exists(st.db, "leagues", id.val) THEN @ + 1 ELSE @]

ConferenceStep(st, conference) ==
    IF st.err # "" THEN st
    ELSE LET id == IntField(conference, "conference_id") IN
         IF ~id.ok THEN [st EXCEPT !.err = "ValueError"]
         ELSE IF id.val = 0 THEN st
         ELSE LET cols == [name |-> Get(conference, "conference_name", "")]
                  row == cols @@ [league_id |-> NoneInt]
              IN [st EXCEPT !.db = Upsert(st.db, "conferences", id.val, row, cols),
                            !.count = @ + 1,
                            !.updated = IF Exists(st.db, "conferences", id.val) THEN @ + 1 ELSE @]

DivisionStep(st, division) ==
    IF st.err # "" THEN st
    ELSE LET id == IntField(division, "id") IN
         IF ~id.ok THEN [st EXCEPT !.err = "ValueError"]
         ELSE IF id.val = 0 THEN st
         ELSE LET cols == [name |-> Get(division, "name", "")]
                  row == cols @@ [league_id |-> NoneInt, conference_id |-> NoneInt]
              IN [st EXCEPT !.db = Upsert(st.db, "divisions", id.val, row, cols),
                            !.count = @ + 1,
                            !.updated = IF Exists(st.db, "divisions", id.val) THEN @ + 1 ELSE @]

\* season.get("current", "0") == "1" or season.get("current") is True
MarkedCurrent(season) == Get(season, "current", "0") \in {"1", PyTrue}

\* "Preseason" in name, "Playoffs" in name, over the names the model sends
PreseasonNames == {"2024 Preseason"}

PlayoffNames == {"2024 Playoffs"}

SeasonType(name) ==
    IF name \in PreseasonNames THEN "Preseason"
    ELSE IF name \in PlayoffNames THEN "Playoffs"
    ELSE "Regular Season"

\* a mutant: the markers are ignored and the highest id is taken
CurrentSeasonIdHighest(seasons_data) ==
    IF seasons_data = <<>> THEN [ok |-> TRUE, val |-> NoneInt]
    ELSE IF \E i \in DOMAIN seasons_data : ~IntField(seasons_data[i], "id").ok
    THEN [ok |-> FALSE, val |-> NoneInt]
    ELSE LET ids == {IntField(seasons_data[i], "id").val : i \in DOMAIN seasons_data}
         IN [ok |-> TRUE, val |-> Some(CHOOSE m \in ids : \A n \in ids : n <= m)]

\* The id of the season the API marks current: the first marked season's id,
\* else the highest id of the list, else None.  The int() of a non-numeric id
\* raises.
CurrentSeasonId(seasons_data) ==
    LET marked == {i \in DOMAIN seasons_data : MarkedCurrent(seasons_data[i])}
    IN IF marked # {}
       THEN LET first == CHOOSE i \in marked : \A j \in marked : i <= j
                id == IntField(seasons_data[first], "id")
            IN [ok |-> id.ok, val |-> IF id.ok THEN Some(id.val) ELSE NoneInt]
       ELSE IF seasons_data = <<>> THEN [ok |-> TRUE, val |-> NoneInt]
       ELSE IF \E i \in DOMAIN seasons_data : ~IntField(seasons_data[i], "id").ok
            THEN [ok |-> FALSE, val |-> NoneInt]
       ELSE LET ids == {IntField(seasons_data[i], "id").val : i \in DOMAIN seasons_data}
            IN [ok |-> TRUE, val |-> Some(CHOOSE m \in ids : \A n \in ids : n <= m)]

SeasonStep(current_season_id, st, season) ==
    IF st.err # "" THEN st
    ELSE LET id == IntField(season, "id") IN
         IF ~id.ok THEN [st EXCEPT !.err = "ValueError"]
         ELSE IF id.val = 0 THEN st
         ELSE LET name == Get(season, "name", "")
                  sort == IntField(season, "default_sort")
                  cols == [sort |-> IF sort.ok THEN sort.val ELSE 0,
                           name |-> name,
                           type |-> SeasonType(name),
                           current |-> IF Some(id.val) = current_season_id THEN 1 ELSE 0,
                           hide_in_standings |->
                               IF TruthyStr(Get(season, "hide_in_standings", PyNone))
                               THEN 1 ELSE 0]
                  row == cols @@ [start_date |-> ""]
              IN [st EXCEPT !.db = Upsert(st.db, "seasons", id.val, row, cols),
                            !.count = @ + 1,
                            !.updated = IF Exists(st.db, "seasons", id.val) THEN @ + 1 ELSE @]

\* "all" in s.lower(), over the ids and names the model sends
HasAll(s) == s \in {"all", "All Teams", "Dallas"}

\* One team of update_teams: the "All Teams" entry and a non-numeric or zero id
\* are skipped; a foreign-key failure of the INSERT or UPDATE is raised.
TeamStep(league_id, st, team) ==
    IF st.err # "" THEN st
    ELSE IF HasAll(Get(team, "id", "")) \/ HasAll(Get(team, "name", "")) THEN st
    ELSE LET id == IntField(team, "id") IN
         IF ~id.ok \/ id.val = 0 THEN st
         ELSE LET div == IntField(team, "division_id")
                  division_id == IF div.ok THEN Some(div.val) ELSE NoneInt
                  conference_id ==
                      IF TruthyInt(division_id) /\ Exists(st.db, "divisions", division_id[1])
                         /\ TruthyInt(st.db["divisions"][division_id[1]].conference_id)
                      THEN st.db["divisions"][division_id[1]].conference_id
                      ELSE NoneInt
                  cols == [name |-> Get(team, "name", ""),
                           nickname |-> Get(team, "nickname", ""),
                           code |-> Get(team, "team_code", ""),
                           city |-> Get(team, "city", ""),
                           logo |-> Get(team, "logo", ""),
                           league_id |-> Some(league_id),
                           conference_id |-> conference_id,
                           division_id |-> division_id]
              IN IF fkOn /\ FkViolation(st.db, "teams", cols)
                 THEN [st EXCEPT !.err = "IntegrityError"]
                 ELSE [st EXCEPT !.db = Upsert(st.db, "teams", id.val, cols, cols),
                                 !.count = @ + 1,
                                 !.updated = IF Exists(st.db, "teams", id.val) THEN @ + 1 ELSE @]

\* The five scrapers as runs over their list.
update_leagues(db, leagues_data) == ForEach(LeagueStep, Start(db), leagues_data)

update_conferences(db, conferences_data) ==
    ForEach(ConferenceStep, Start(db), conferences_data)

update_divisions(db, divisions_data) == ForEach(DivisionStep, Start(db), divisions_data)

update_seasons(db, seasons_data) ==
    LET cur == CurrentSeasonId(seasons_data)
        Step(st, season) == SeasonStep(cur.val, st, season)
    IN IF ~cur.ok THEN [Start(db) EXCEPT !.err = "ValueError"]
       ELSE ForEach(Step, Start(db), seasons_data)

update_teams(db, teams_data, season_id, league_id) ==
    LET Step(st, team) == TeamStep(league_id, st, team)
    IN ForEach(Step, Start(db), teams_data)

(***************************************************************************)
(* The records the API sends in the model: well-formed ones, a changed     *)
(* version of an existing one, ones with a zero, missing or non-numeric id.*)
(***************************************************************************)
LeagueRecs ==
    {[id |-> "1", name |-> "PWHL", short_name |-> "PWHL", code |-> "pwhl",
      logo_image |-> "logo.png"],
     [id |-> "1", name |-> "PWHL Updated", short_name |-> "PWHL", code |-> "pwhl-new",
      logo_image |-> "logo.png"],
     [id |-> "abc", name |-> "Bad"]}

ConferenceRecs ==
    {[conference_id |-> "1", conference_name |-> "Eastern Conference"],
     [conference_id |-> "0", conference_name |-> "Zero"]}

DivisionRecs ==
    {[id |-> "1", name |-> "North Division", conference_id |-> "1"],
     [name |-> "No id"]}

SeasonRecs ==
    {[id |-> "1", name |-> "2024 Regular Season", default_sort |-> "1"],
     [id |-> "2", name |-> "2024 Playoffs", current |-> "1", hide_in_standings |-> "1"],
     [id |-> "abc", name |-> "2024 Preseason"]}

TeamRecs ==
    {[id |-> "1", name |-> "Boston", nickname |-> "Fleet", team_code |-> "BOS",
      city |-> "Boston", logo |-> "boston.png", division_id |-> "1"],
     [id |-> "1", name |-> "Boston", division_id |-> "abc"],
     [id |-> "all", name |-> "All Teams"]}

LeagueIds == {1}

(***************************************************************************)
(* One call of a scraper on the open connection.  `call` records it: the   *)
(* input, the value returned (None when it raised), the exception, the     *)
(* target table's row count after it, whether the call before it was the   *)
(* same function on the same input and, if so, the row count after that    *)
(* first call.                                                             *)
(***************************************************************************)
Returned(op, input, t, run) ==
    [op |-> op, input |-> input, table |-> t,
     ret |-> IF run.err = "" THEN Some(run.count) ELSE NoneInt,
     err |-> run.err,
     updated |-> run.updated,
     rows |-> RowCount(run.db, t),
     repeat |-> call.op = op /\ call.input = input,
     rowsFirst |-> IF call.op = op /\ call.input = input THEN call.rows ELSE 0]

\* the scraper ran: its writes are in the connection's view, and on disk once
\* it reached conn.commit()
Ran(op, input, t, run) ==
    /\ connOpen
    /\ dbFile = "ready"
    /\ Get(call, "err", "") = ""
    /\ work' = run.db
    /\ disk' = IF run.err = "" THEN run.db ELSE disk
    /\ call' = Returned(op, input, t, run)
    /\ UNCHANGED <<dbFile, fkOn, connOpen, api, schema, indexes>>

UpdateLeagues ==
    \E data \in ListsUpTo(LeagueRecs, MaxBatch) :
        Ran("update_leagues", data, "leagues", update_leagues(work, data))

UpdateConferences ==
    \E data \in ListsUpTo(ConferenceRecs, MaxBatch) :
        Ran("update_conferences", data, "conferences", update_conferences(work, data))

UpdateDivisions ==
    \E data \in ListsUpTo(DivisionRecs, MaxBatch) :
        Ran("update_divisions", data, "divisions", update_divisions(work, data))

UpdateSeasons ==
    \E data \in ListsUpTo(SeasonRecs, MaxBatch) :
        Ran("update_seasons", data, "seasons", update_seasons(work, data))

UpdateTeams ==
    \E data \in ListsUpTo(TeamRecs, MaxBatch), league_id \in LeagueIds :
        Ran("update_teams", <<data, 1, league_id>>, "teams",
            update_teams(work, data, 1, league_id))

\* A scraper raised: its caller logs the error, rolls the connection back and
\* re-raises (the except block of update_basic_info).
HandleError ==
    /\ connOpen
    /\ Get(call, "err", "") # ""
    /\ work' = disk
    /\ call' = [op |-> "rollback"]
    /\ UNCHANGED <<dbFile, disk, fkOn, connOpen, api, schema, indexes>>

NoCall == [op |-> "none"]

ApiIdle == [pc |-> "idle"]

\* The basic-info scrapers on a connection to a freshly set up database, with
\* or without foreign-key enforcement.
InitBasic ==
    /\ dbFile = "ready"
    /\ schema = DefaultSchema
    /\ indexes = SetupIndexes(DefaultSchema)
    /\ disk = EmptyDb
    /\ work = EmptyDb
    /\ fkOn \in BOOLEAN
    /\ connOpen = TRUE
    /\ call = NoCall
    /\ api = ApiIdle

NextBasic ==
    \/ UpdateLeagues
    \/ UpdateConferences
    \/ UpdateDivisions
    \/ UpdateSeasons
    \/ UpdateTeams
    \/ HandleError

SpecBasic == InitBasic /\ [][NextBasic]_vars

\* seasons with and without the marker of the current season, as the string
\* "1" or as True, and a marked record without a usable id
FlaggedSeasonRecs ==
    {[id |-> "1", name |-> "2024 Regular Season"],
     [id |-> "1", name |-> "2024 Regular Season", current |-> PyTrue],
     [id |-> "2", name |-> "2024 Playoffs", current |-> "1"],
     [id |-> "2", name |-> "2024 Playoffs", current |-> "0"],
     [id |-> "0", name |-> "2024 Preseason", current |-> "1"]}

UpdateFlaggedSeasons ==
    \E data \in ListsUpTo(FlaggedSeasonRecs, MaxBatch) :
        Ran("update_seasons", data, "seasons", update_seasons(work, data))

NextSeasons == UpdateFlaggedSeasons

\* update_seasons on lists that mark their current season
SpecSeasons == InitBasic /\ [][NextSeasons]_vars

\* leagues with an id, with the id 0 and without one
SkippableLeagueRecs ==
    {[id |-> "1", name |-> "PWHL", short_name |-> "PWHL", code |-> "pwhl",
      logo_image |-> "logo.png"],
     [id |-> "0", name |-> "Zero"],
     [name |-> "No id"]}

UpdateSkippableLeagues ==
    \E data \in ListsUpTo(SkippableLeagueRecs, MaxBatch) :
        Ran("update_leagues", data, "leagues", update_leagues(work, data))

\* seasons with an id, with the id 0 and without one
SkippableSeasonRecs ==
    {[id |-> "1", name |-> "2024 Regular Season", default_sort |-> "1"],
     [id |-> "0", name |-> "2024 Preseason", current |-> "1"],
     [name |-> "2024 Playoffs"]}

UpdateSkippableSeasons ==
    \E data \in ListsUpTo(SkippableSeasonRecs, MaxBatch) :
        Ran("update_seasons", data, "seasons", update_seasons(work, data))

NextSkipped ==
    \/ UpdateSkippableLeagues
    \/ UpdateConferences
    \/ UpdateDivisions
    \/ UpdateSkippableSeasons

\* the four scrapers on lists with records that have no id
SpecSkipped == InitBasic /\ [][NextSkipped]_vars

ScraperOps == {"update_leagues", "update_conferences", "update_divisions",
               "update_seasons", "update_teams"}

(***************************************************************************)
(* C1.  Idempotence: when update_leagues, update_conferences,              *)
(* update_divisions, update_seasons or update_teams is called twice in a   *)
(* row with the same input, the target table holds as many rows after the  *)
(* second call as after the first.                                         *)
(***************************************************************************)
C1_Idempotent ==
    (call.op \in ScraperOps /\ call.repeat) => call.rows = call.rowsFirst

\* a second, identical update_seasons call that found its two seasons stored
C1_Witness ==
    /\ call.op = "update_seasons"
    /\ call.repeat
    /\ call.updated = 2
    /\ call.rows = 2

(***************************************************************************)
(* C2.  Upsert correctness of update_leagues: a record whose id is already *)
(* in the leagues table updates that row in place (the row under the same  *)
(* primary key now holds the record's name, short_name and code) and adds  *)
(* no row: the table's keys after the call are its keys before plus the    *)
(* new ids of the list, and the call returns the number of records stored  *)
(* (1 for a list of one).                                                  *)
(***************************************************************************)
LeagueId(record) == IntField(record, "id").val

C2_UpsertInPlace ==
    [][(call'.op = "update_leagues" /\ call'.err = "")
       => LET data == call'.input
              last == {i \in DOMAIN data :
                          /\ LeagueId(data[i]) # 0
                          /\ \A j \in DOMAIN data : j > i => LeagueId(data[j]) # LeagueId(data[i])}
          IN (\E i \in last : LeagueId(data[i]) \in Rows(work, "leagues"))
             => /\ Rows(work', "leagues") =
                       Rows(work, "leagues") \cup {LeagueId(data[i]) : i \in last}
                /\ \A i \in last :
                       /\ work'["leagues"][LeagueId(data[i])].name = Get(data[i], "name", "")
                       /\ work'["leagues"][LeagueId(data[i])].short_name =
                              Get(data[i], "short_name", "")
                       /\ work'["leagues"][LeagueId(data[i])].code = Get(data[i], "code", "")
                /\ call'.ret = Some(Cardinality({i \in DOMAIN data : LeagueId(data[i]) # 0}))
      ]_vars

\* the spec's example: league 1 "PWHL"/"pwhl" was stored, the update arrived, and
\* the one row is (1, "PWHL Updated", "pwhl-new"), the call returning 1
C2_Witness ==
    /\ call.op = "update_leagues"
    /\ Len(call.input) = 1
    /\ call.updated = 1
    /\ call.ret = Some(1)
    /\ Rows(work, "leagues") = {1}
    /\ work["leagues"][1].name = "PWHL Updated"
    /\ work["leagues"][1].code = "pwhl-new"
    /\ disk = work

(***************************************************************************)
(* players.py.  The API's player payload is the dictionary `info` (the     *)
(* media section carries no image in the model).  A birth place            *)
(* "Toronto, ON" is the sequence of its comma-separated parts, a height    *)
(* 5'10" the pair <<5, 10>>, a weight in pounds <<160>>; an absent or      *)
(* null value is <<>>.                                                     *)
(***************************************************************************)

\* utils/converters.py, extract_hometown_parts: the city and the region of a
\* free-text location, None for a part that is not there
extract_hometown_parts(birth_place) ==
    <<IF Len(birth_place) >= 1 THEN birth_place[1] ELSE PyNone,
      IF Len(birth_place) >= 2 THEN birth_place[2] ELSE PyNone>>

\* utils/converters.py, extract_height_weight: feet and inches to centimetres,
\* pounds to kilograms, rounded; None for a value that is not there
extract_height_weight(height, weight) ==
    <<IF Len(height) = 2
      THEN Some((((height[1] * 12) + height[2]) * 254 + 50) \div 100) ELSE NoneInt,
      IF Len(weight) = 1
      THEN Some((weight[1] * 4536 + 5000) \div 10000) ELSE NoneInt>>

\* utils/converters.py, extract_team_id_from_url: the team id is the numeric last
\* segment of the image URL's path (a URL is the sequence of its path segments);
\* None for no URL or no id in it
extract_team_id_from_url(team_image_url) ==
    IF Len(team_image_url) = 0 THEN NoneInt
    ELSE LET last == team_image_url[Len(team_image_url)]
         IN IF IsNumeric(last) THEN Some(ToInt(last)) ELSE NoneInt

PositionAnalysis(position) ==
    IF position = "G" THEN "G"
    ELSE IF position \in {"D", "LD", "RD"} THEN "D"
    ELSE IF position \in {"F", "C", "LW", "RW"} THEN "F"
    ELSE ""

\* int(jerseyNumber) if jerseyNumber else None; None on ValueError
JerseyNumber(info) ==
    LET raw == Get(info, "jerseyNumber", "") IN
    IF raw = "" THEN NoneInt
    ELSE IF IsNumeric(raw) THEN Some(ToInt(raw)) ELSE NoneInt

extract_player_fields(player_data) ==
    LET player_info == Get(player_data, "info", <<>>)
        birth_place == Get(player_info, "birthPlace", <<>>)
        nationality_obj == Get(player_info, "nationality", <<>>)
        height == Get(player_info, "height", NoneInt)
        weight == Get(player_info, "weight", NoneInt)
        position == Get(player_info, "position", PyNone)
    IN [id |-> IntField(player_info, "playerId").val,
        team_id |-> extract_team_id_from_url(Get(player_info, "teamImage", NoneInt)),
        jersey_number |-> JerseyNumber(player_info),
        first_name |-> Get(player_info, "firstName", ""),
        last_name |-> Get(player_info, "lastName", ""),
        birth_date |-> Get(player_info, "birthDate", PyNone),
        type |-> Get(player_info, "playerType", PyNone),
        position |-> position,
        position_analysis |-> PositionAnalysis(position),
        shoots |-> Get(player_info, "shoots", PyNone),
        catches |-> Get(player_info, "catches", PyNone),
        height_cm |-> extract_height_weight(height, weight)[1],
        weight_kg |-> extract_height_weight(height, weight)[2],
        height |-> height,
        weight |-> weight,
        hometown |-> extract_hometown_parts(birth_place)[1],
        hometown_div |-> extract_hometown_parts(birth_place)[2],
        nationality |-> Get(nationality_obj, "name", ""),
        biography |-> Get(player_info, "bio", PyNone),
        image_url |-> Get(player_info, "profileImage", PyNone),
        photo_1_url |-> PyNone,
        photo_2_url |-> PyNone]

\* the columns of the players table (PRAGMA table_info): those of the INSERT
PlayerColumns ==
    {"id", "team_id", "jersey_number", "first_name", "last_name", "birth_date", "type",
     "position", "position_analysis", "shoots", "catches", "height_cm", "weight_kg",
     "height", "weight", "hometown", "hometown_div", "nationality", "biography",
     "image_url", "photo_1_url", "photo_2_url"}

preserve_fields == {"hometown", "hometown_div", "nationality", "weight_kg", "height_cm"}

\* bool(value) of a column's value
Truthy(column, v) ==
    IF column \in {"weight_kg", "height_cm", "jersey_number", "team_id"}
    THEN TruthyInt(v) ELSE TruthyStr(v)

\* a mutant: preserve-listed fields are compared like every other field
ColumnChangesAlways(column, fields, existing_fields) ==
    fields[column] # existing_fields[column]

\* whether update_player writes the column: a preserve-listed field only when
\* the API's value is non-empty and differs, any other field when it differs
ColumnChanges(column, fields, existing_fields) ==
    IF column \in preserve_fields
    THEN Truthy(column, fields[column]) /\ fields[column] # existing_fields[column]
    ELSE fields[column] # existing_fields[column]

\* a mutant: a player already stored is never touched
update_player_skips_existing(db, player_data) ==
    IF player_data = <<>>
    THEN [db |-> db, ret |-> FALSE, existed |-> FALSE, changes |-> {}]
    ELSE LET fields == extract_player_fields(player_data) IN
         IF ~Exists(db, "players", fields.id)
         THEN [db |-> SqlInsert(db, "players", fields.id, fields),
               ret |-> TRUE, existed |-> FALSE, changes |-> {}]
         ELSE [db |-> db, ret |-> FALSE, existed |-> TRUE, changes |-> {}]

\* a mutant: a player already stored is rewritten whole on every call
update_player_rewrites(db, player_data) ==
    IF player_data = <<>>
    THEN [db |-> db, ret |-> FALSE, existed |-> FALSE, changes |-> {}]
    ELSE LET fields == extract_player_fields(player_data) IN
         IF ~Exists(db, "players", fields.id)
         THEN [db |-> SqlInsert(db, "players", fields.id, fields),
               ret |-> TRUE, existed |-> FALSE, changes |-> {}]
         ELSE [db |-> SqlUpdate(db, "players", fields.id, fields),
               ret |-> TRUE, existed |-> TRUE, changes |-> PlayerColumns]

\* update_player: [db, ret, existed, changes]
update_player(db, player_data) ==
    IF player_data = <<>>
    THEN [db |-> db, ret |-> FALSE, existed |-> FALSE, changes |-> {}]
    ELSE LET fields == extract_player_fields(player_data)
             player_id == fields.id
         IN IF ~Exists(db, "players", player_id)
            THEN [db |-> SqlInsert(db, "players", player_id, fields),
                  ret |-> TRUE, existed |-> FALSE, changes |-> {}]
            ELSE LET existing_fields == db["players"][player_id]
                     changes == {c \in PlayerColumns :
                                    ColumnChanges(c, fields, existing_fields)}
                 IN IF changes # {}
                    THEN [db |-> SqlUpdate(db, "players", player_id,
                                           [c \in changes |-> fields[c]]),
                          ret |-> TRUE, existed |-> TRUE, changes |-> changes]
                    ELSE [db |-> db, ret |-> FALSE, existed |-> TRUE, changes |-> {}]

\* the payloads of the model
PlayerInfos ==
    {[playerId |-> Digits[id + 1], firstName |-> nm[1], lastName |-> "Doe",
      jerseyNumber |-> nm[2], position |-> "F", birthPlace |-> from[1],
      nationality |-> from[2], height |-> hw[1], weight |-> hw[2]] :
        id \in 1..MaxPlayerId,
        nm \in {<<"Jane", "7">>, <<"Janet", "">>},
        from \in {<<<<"Toronto", "ON">>, [name |-> "Canada"]>>, <<<<>>, <<>>>>},
        hw \in {<<<<5, 10>>, <<160>>>>, <<NoneInt, NoneInt>>}}

PlayerPayloads == {[info |-> i] : i \in PlayerInfos} \cup {<<>>}

\* One call of update_player on the connection update_players opens
\* (sqlite3.connect, no PRAGMA); every path that writes commits.
UpdatePlayer ==
    \E player_data \in PlayerPayloads :
        LET run == update_player(work, player_data) IN
        /\ connOpen
        /\ dbFile = "ready"
        /\ work' = run.db
        /\ disk' = run.db
        /\ call' = [op |-> "update_player", input |-> player_data, ret |-> run.ret,
                    existed |-> run.existed, changes |-> run.changes]
        /\ UNCHANGED <<dbFile, fkOn, connOpen, api, schema, indexes>>

InitPlayers ==
    /\ dbFile = "ready"
    /\ schema = DefaultSchema
    /\ indexes = SetupIndexes(DefaultSchema)
    /\ disk = EmptyDb
    /\ work = EmptyDb
    /\ fkOn = FALSE
    /\ connOpen = TRUE
    /\ call = NoCall
    /\ api = ApiIdle

NextPlayers == UpdatePlayer

SpecPlayers == InitPlayers /\ [][NextPlayers]_vars

(***************************************************************************)
(* C3.  Preserve-field policy: when update_player is called for a player   *)
(* already stored and the API's value for hometown, hometown_div,          *)
(* nationality, weight_kg or height_cm is empty or null, the stored value  *)
(* of that field is unchanged by the call, whatever else the call updates. *)
(***************************************************************************)
ApiEmpty(column, player_data) ==
    LET info == player_data.info IN
    CASE column = "hometown" -> Len(Get(info, "birthPlace", <<>>)) < 1
      [] column = "hometown_div" -> Len(Get(info, "birthPlace", <<>>)) < 2
      [] column = "nationality" -> Get(Get(info, "nationality", <<>>), "name", "") = ""
      [] column = "weight_kg" -> Get(info, "weight", NoneInt) = NoneInt
      [] column = "height_cm" -> Get(info, "height", NoneInt) = NoneInt

PlayerIdOf(player_data) == IntField(player_data.info, "playerId").val

C3_PreserveFields ==
    [][(call'.op = "update_player" /\ call'.existed)
       => \A c \in preserve_fields :
              ApiEmpty(c, call'.input)
              => work'["players"][PlayerIdOf(call'.input)][c] =
                     work["players"][PlayerIdOf(call'.input)][c]
      ]_vars

\* a stored player with a hometown was updated (first name, jersey number) by a
\* payload with an empty birth place, and still has the hometown
C3_Witness ==
    /\ call.op = "update_player"
    /\ call.existed
    /\ "first_name" \in call.changes
    /\ ApiEmpty("hometown", call.input)
    /\ ApiEmpty("nationality", call.input)
    /\ ApiEmpty("height_cm", call.input)
    /\ work["players"][PlayerIdOf(call.input)].hometown = "Toronto"
    /\ work["players"][PlayerIdOf(call.input)].nationality = "Canada"
    /\ work["players"][PlayerIdOf(call.input)].height_cm = Some(178)

(***************************************************************************)
(* play_by_play.py, the backfill query.  A games row holds its season, its *)
(* status and its two teams; an event row of any play-by-play table holds  *)
(* the id of its game.                                                     *)
(***************************************************************************)
GameIds == 1..MaxGameId

GameStatuses == {"Final", "In Progress"}

\* the ascending list of a set of integers (ORDER BY)
RECURSIVE OrderBy(_)
OrderBy(S) ==
    IF S = {} THEN <<>>
    ELSE LET least == CHOOSE m \in S : \A n \in S : m <= n
         IN <<least>> \o OrderBy(S \ {least})

\* a mutant: the UNION leaves out one of the event tables
EventGameIdsWithoutShootouts(db) ==
    UNION {{db[t][k].game_id : k \in DOMAIN db[t]} : t \in PbpTables \ {"pbp_shootouts"}}

\* SELECT DISTINCT game_id FROM pbp_faceoffs UNION ... FROM pbp_shootouts
EventGameIds(db) ==
    UNION {{db[t][k].game_id : k \in DOMAIN db[t]} : t \in PbpTables}

\* The games LEFT JOINed to no event row, with status 'Final', ordered by id:
\* the list of (game_id, season_id).
get_games_without_play_by_play(db) ==
    LET ids == {g \in Rows(db, "games") :
                   /\ g \notin EventGameIds(db)
                   /\ db["games"][g].status = "Final"}
        ordered == OrderBy(ids)
    IN [i \in DOMAIN ordered |-> <<ordered[i], db["games"][ordered[i]].season_id>>]

EventRowCount(db) ==
    Cardinality({<<t, k>> \in PbpTables \X (GameIds \X {"test"}) : k \in DOMAIN db[t]})

\* a game arrives in the games table (INSERT INTO games ...)
InsertGame ==
    \E g \in GameIds, status \in GameStatuses :
        /\ connOpen
        /\ dbFile = "ready"
        /\ ~Exists(work, "games", g)
        /\ work' = SqlInsert(work, "games", g,
                             [season_id |-> 1, status |-> status,
                              home_team |-> NoneInt, visiting_team |-> NoneInt])
        /\ disk' = work'
        /\ call' = [op |-> "insert"]
        /\ UNCHANGED <<dbFile, fkOn, connOpen, api, schema, indexes>>

\* an event row of game g arrives in one of the eight tables
\* (INSERT INTO pbp_goals (id, game_id, season_id) VALUES ('test', 1, 1))
InsertEventRow ==
    \E t \in PbpTables, g \in GameIds :
        /\ connOpen
        /\ dbFile = "ready"
        /\ EventRowCount(work) < MaxEventRows
        /\ ~Exists(work, t, <<g, "test">>)
        /\ work' = SqlInsert(work, t, <<g, "test">>, [game_id |-> g, season_id |-> 1])
        /\ disk' = work'
        /\ call' = [op |-> "insert"]
        /\ UNCHANGED <<dbFile, fkOn, connOpen, api, schema, indexes>>

GetGamesWithoutPlayByPlay ==
    /\ connOpen
    /\ dbFile = "ready"
    /\ call' = [op |-> "get_games_without_play_by_play",
                ret |-> get_games_without_play_by_play(work)]
    /\ UNCHANGED <<dbFile, disk, work, fkOn, connOpen, api, schema, indexes>>

InitBackfill ==
    /\ dbFile = "ready"
    /\ schema = DefaultSchema
    /\ indexes = SetupIndexes(DefaultSchema)
    /\ disk = EmptyDb
    /\ work = EmptyDb
    /\ fkOn = FALSE
    /\ connOpen = TRUE
    /\ call = NoCall
    /\ api = ApiIdle

NextBackfill ==
    \/ InsertGame
    \/ InsertEventRow
    \/ GetGamesWithoutPlayByPlay

SpecBackfill == InitBackfill /\ [][NextBackfill]_vars

\* the games with no row in any of the eight event tables
GamesWithoutEvents(db) ==
    {g \in Rows(db, "games") :
        \A t \in PbpTables : \A k \in DOMAIN db[t] : db[t][k].game_id # g}

ReturnedGames == {call.ret[i][1] : i \in DOMAIN call.ret}

(***************************************************************************)
(* C4 as stated.  get_games_without_play_by_play returns exactly the games *)
(* that have no row in any of the eight event tables.  The query also      *)
(* requires status = 'Final', so a game without events that is not final   *)
(* is not returned.                                                        *)
(***************************************************************************)
C4_Original ==
    call.op = "get_games_without_play_by_play"
    => ReturnedGames = GamesWithoutEvents(work)

(***************************************************************************)
(* C4, amended.  get_games_without_play_by_play returns exactly the games  *)
(* whose status is 'Final' and that have no row in any of the eight event  *)
(* tables: every such game once, with its season, in ascending id order,   *)
(* and no other game.                                                      *)
(***************************************************************************)
C4_BackfillFinalGames ==
    call.op = "get_games_without_play_by_play"
    => /\ ReturnedGames =
              {g \in GamesWithoutEvents(work) : work["games"][g].status = "Final"}
       /\ \A i, j \in DOMAIN call.ret : i < j => call.ret[i][1] < call.ret[j][1]
       /\ \A i \in DOMAIN call.ret :
              call.ret[i][2] = work["games"][call.ret[i][1]].season_id

\* the test's database: two final games, an event row for game 1 only, and the
\* query returned game 2 alone
C4_Witness ==
    /\ call.op = "get_games_without_play_by_play"
    /\ Rows(work, "games") = {1, 2}
    /\ \A g \in {1, 2} : work["games"][g].status = "Final"
    /\ Exists(work, "pbp_goals", <<1, "test">>)
    /\ call.ret = <<<<2, 1>>>>

(***************************************************************************)
(* api/client.py, PWHLApiClient.  Time is in tenths of a second.  A        *)
(* response body is the sequence of its tokens; a response is a status     *)
(* with a body, or the transport exception requests.get raised.            *)
(***************************************************************************)
RateLimit == 5

RateLimits == {0, RateLimit}

JsonValues == {[data |-> "test"], [data |-> "jsonp wrapped"]}

\* json.dumps of a one-key object
JsonText(v) == <<"{", "data", ":", v.data, "}">>

Wrapped(text) == <<"(">> \o text \o <<")">>

GarbledBodies == {<<"invalid", "json">>, <<"(", "invalid", "json", ")">>, <<>>}

Bodies == {JsonText(v) : v \in JsonValues} \cup {Wrapped(JsonText(v)) : v \in JsonValues}
          \cup GarbledBodies

Responses ==
    {[kind |-> "http", status |-> 200, body |-> b] : b \in Bodies}
    \cup {[kind |-> "http", status |-> 404, body |-> <<>>],
          [kind |-> "exception", status |-> 0, body |-> <<>>]}

\* a mutant: the envelope is not stripped
StripJsonpKeeps(text) == text

\* an optional single pair of parentheses around the text is removed
StripJsonp(text) ==
    IF Len(text) >= 2 /\ text[1] = "(" /\ text[Len(text)] = ")"
    THEN SubSeq(text, 2, Len(text) - 1) ELSE text

\* json.loads of a one-key object: the value, or the decode error
JsonLoads(text) ==
    IF Len(text) = 5 /\ text[1] = "{" /\ text[2] = "data" /\ text[3] = ":" /\ text[5] = "}"
    THEN [ok |-> TRUE, val |-> [data |-> text[4]]]
    ELSE [ok |-> FALSE, val |-> [data |-> ""]]

\* a mutant: the limiter sleeps the whole interval
RateLimitSleepWhole(elapsed, rate_limit) ==
    IF elapsed < rate_limit THEN <<rate_limit>> ELSE <<>>

\* _respect_rate_limit: the sleeps it makes, given the time since the last request
RateLimitSleep(elapsed, rate_limit) ==
    IF elapsed < rate_limit THEN <<rate_limit - elapsed>> ELSE <<>>

Pending == [kind |-> "pending", val |-> [data |-> ""]]

ReturnedNone == [kind |-> "none", val |-> [data |-> ""]]

ReturnedValue(v) == [kind |-> "value", val |-> v]

\* a mutant: a parse failure is treated like a failed attempt
ParseFailureRetried(attempt) == attempt < MaxRetries

\* whether fetch_data goes on to another attempt after a JSON parse failure
ParseFailureRetries(attempt) == FALSE

\* a mutant: the loop runs one attempt too many
MoreAttemptsOffByOne(attempt) == attempt <= MaxRetries

\* whether the retry loop has another attempt after a failed one
MoreAttempts(attempt) == attempt < MaxRetries

\* the client's base URL and the parameters every request carries
base_url == "HOCKEYTECH_BASE_URL"

default_params == [key |-> "HOCKEYTECH_KEY", client_code |-> "CLIENT_CODE"]

Endpoints == {"endpoint", "index.php"}

\* the endpoint-specific parameters a caller passes: none, some, or one that
\* names a default parameter
CallerParams ==
    {<<>>, [param1 |-> "value1", param2 |-> "value2"], [key |-> "other"]}

\* a mutant: the caller's parameters are dropped
RequestParamsDefaultsOnly(params) == default_params

\* {**default_params, **params}: the caller's value wins for a shared name
RequestParams(params) ==
    [k \in DOMAIN default_params \cup DOMAIN params |->
        IF k \in DOMAIN params THEN params[k] ELSE default_params[k]]

\* the request of an attempt: requests.get(url, params = ...)
Request(endpoint, params) ==
    [url |-> <<base_url, endpoint>>, params |-> RequestParams(params)]

\* time passes
Tick ==
    /\ api.pc \in {"idle", "done"}
    /\ api.now < MaxClock
    /\ api' = [api EXCEPT !.now = @ + 1]
    /\ UNCHANGED <<dbFile, disk, work, fkOn, connOpen, call, schema, indexes>>

\* fetch_data(endpoint, params) is called
FetchData ==
    \E endpoint \in Endpoints, params \in CallerParams :
        /\ api.pc \in {"idle", "done"}
        /\ api.now <= MaxClock
        /\ api' = [api EXCEPT !.pc = "rate_limit", !.attempt = 1, !.requests = 0,
                              !.responses = <<>>, !.result = Pending,
                              !.endpoint = endpoint, !.params = params, !.sent = <<>>]
    /\ UNCHANGED <<dbFile, disk, work, fkOn, connOpen, call, schema, indexes>>

\* _respect_rate_limit() before the attempt's request
RespectRateLimit ==
    /\ api.pc = "rate_limit"
    /\ LET elapsed == api.now - api.last_request_time
           sleeps == RateLimitSleep(elapsed, api.rate_limit)
           woke == api.now + (IF sleeps = <<>> THEN 0 ELSE sleeps[1])
       IN api' = [api EXCEPT !.pc = "request", !.elapsed = elapsed, !.rlSleep = sleeps,
                             !.now = woke, !.last_request_time = woke]
    /\ UNCHANGED <<dbFile, disk, work, fkOn, connOpen, call, schema, indexes>>

\* a failed attempt: wait and try again, or give up with None
AfterFailure(a, more) ==
    IF more
    THEN [a EXCEPT !.pc = "rate_limit", !.attempt = @ + 1, !.now = @ + RetryDelay]
    ELSE [a EXCEPT !.pc = "done", !.result = ReturnedNone]

\* requests.get and the handling of what came back
RequestsGet ==
    \E r \in Responses :
        /\ api.pc = "request"
        /\ LET a == [api EXCEPT !.requests = @ + 1, !.responses = Append(@, r),
                                !.sent = Request(api.endpoint, api.params)]
               parsed == JsonLoads(StripJsonp(r.body))
           IN api' =
                  IF r.kind = "http" /\ r.status = 200
                  THEN IF parsed.ok
                       THEN [a EXCEPT !.pc = "done", !.result = ReturnedValue(parsed.val)]
                       ELSE AfterFailure(a, ParseFailureRetries(api.attempt))
                  ELSE AfterFailure(a, MoreAttempts(api.attempt))
        /\ UNCHANGED <<dbFile, disk, work, fkOn, connOpen, call, schema, indexes>>

InitApi ==
    /\ dbFile = "absent"
    /\ schema = DefaultSchema
    /\ indexes = {}
    /\ disk = EmptyDb
    /\ work = EmptyDb
    /\ fkOn = FALSE
    /\ connOpen = FALSE
    /\ call = NoCall
    /\ \E rl \in RateLimits :
           api = [pc |-> "idle", now |-> 0, last_request_time |-> 0, rate_limit |-> rl,
                  attempt |-> 0, requests |-> 0, responses |-> <<>>, elapsed |-> 0,
                  rlSleep |-> <<>>, result |-> Pending, endpoint |-> "", params |-> <<>>,
                  sent |-> <<>>]

NextApi ==
    \/ Tick
    \/ FetchData
    \/ RespectRateLimit
    \/ RequestsGet

SpecApi == InitApi /\ [][NextApi]_vars

IsOk(r) == r.kind = "http" /\ r.status = 200

LastResponse == api.responses[Len(api.responses)]

\* C5: before a request the limiter sleeps exactly rate_limit minus the time since
\* the last request when that time is below rate_limit (0.5 and 0.1 give one
\* sleep of 0.4), and does not sleep at all otherwise.
C5_RateLimitSleep ==
    api.pc = "request" =>
        /\ api.elapsed < api.rate_limit => api.rlSleep = <<api.rate_limit - api.elapsed>>
        /\ api.elapsed >= api.rate_limit => api.rlSleep = <<>>
        /\ api.now - api.last_request_time = 0

C5_Witness ==
    /\ api.pc = "request"
    /\ api.rate_limit = 5
    /\ api.elapsed = 1
    /\ api.rlSleep = <<4>>

\* C6: a fetch never issues more than max_retries requests and never raises; when
\* every attempt fails (non-200 status or transport exception) it has issued
\* exactly max_retries requests when it returns, and it returns None.
C6_RetryCap ==
    /\ api.requests <= MaxRetries
    /\ api.result.kind \in {"pending", "value", "none"}
    /\ (api.pc = "done" /\ \A i \in 1..Len(api.responses) : ~IsOk(api.responses[i])) =>
           /\ api.requests = MaxRetries
           /\ api.result = ReturnedNone

C6_Witness ==
    /\ api.pc = "done"
    /\ api.requests = MaxRetries
    /\ api.result = ReturnedNone
    /\ \E i \in 1..Len(api.responses) : api.responses[i].status = 404
    /\ \E i \in 1..Len(api.responses) : api.responses[i].kind = "exception"

\* C7: a 200 response whose body does not parse as JSON ends the fetch with None;
\* no further request follows it, so a fetch whose first response is one has
\* issued exactly one request.
C7_JsonErrorNotRetried ==
    (api.responses # <<>> /\ api.pc # "request"
        /\ IsOk(LastResponse) /\ LastResponse.body \in GarbledBodies) =>
        /\ api.pc = "done"
        /\ api.result = ReturnedNone
        /\ api.requests = Len(api.responses)
        /\ Len(api.responses) = 1 => api.requests = 1

C7_Witness ==
    /\ api.pc = "done"
    /\ api.responses = <<[kind |-> "http", status |-> 200, body |-> <<"invalid", "json">>]>>
    /\ api.requests = 1
    /\ api.result = ReturnedNone

\* C8: a 200 body that is JSON text wrapped in one pair of parentheses yields the
\* value the unwrapped text yields, and either way the fetch that got it first
\* issued one request.
C8_JsonpUnwrapped ==
    \A v \in JsonValues :
        (api.responses # <<>> /\ api.pc # "request" /\ IsOk(LastResponse)
            /\ LastResponse.body \in {JsonText(v), Wrapped(JsonText(v))}) =>
            /\ api.pc = "done"
            /\ api.result = ReturnedValue(v)
            /\ Len(api.responses) = 1 => api.requests = 1

C8_Witness ==
    /\ api.pc = "done"
    /\ api.responses = <<[kind |-> "http", status |-> 200,
                          body |-> <<"(", "{", "data", ":", "jsonp wrapped", "}", ")">>]>>
    /\ api.requests = 1
    /\ api.result = ReturnedValue([data |-> "jsonp wrapped"])

(***************************************************************************)
(* database/db_manager.py.  The helpers run a statement on the caller's    *)
(* connection.  The statements are the ones on the leagues table; a        *)
(* statement against a file without the schema, or one that does not       *)
(* parse, raises OperationalError, an INSERT of an existing primary key    *)
(* raises IntegrityError.                                                  *)
(***************************************************************************)
StatementIds == {1, 2}

StatementNames == {"PWHL", "PWHL Updated"}

Params == {[id |-> i, name |-> n] : i \in StatementIds, n \in StatementNames}

WriteSql == {"INSERT", "UPDATE", "DELETE", "MALFORMED"}

ReadSql == {"SELECT", "MALFORMED"}

\* DELETE FROM t WHERE id = ?
SqlDelete(db, t, id) ==
    [db EXCEPT ![t] = [i \in DOMAIN @ \ {id} |-> @[i]]]

\* cursor.execute(query, params) on the connection's view: the view after it, the
\* sqlite3 error it raised ("" for none) and cursor.rowcount
CursorExecute(file, db, sql, p) ==
    IF file # "ready" \/ sql = "MALFORMED"
    THEN [db |-> db, err |-> "OperationalError", rowcount |-> 0 - 1]
    ELSE IF sql = "INSERT"
    THEN IF Exists(db, "leagues", p.id)
         THEN [db |-> db, err |-> "IntegrityError", rowcount |-> 0 - 1]
         ELSE [db |-> SqlInsert(db, "leagues", p.id,
                                [name |-> p.name, short_name |-> PyNone,
                                 code |-> PyNone, logo |-> PyNone]),
               err |-> "", rowcount |-> 1]
    ELSE IF sql = "UPDATE"
    THEN [db |-> SqlUpdate(db, "leagues", p.id, [name |-> p.name]), err |-> "",
          rowcount |-> IF Exists(db, "leagues", p.id) THEN 1 ELSE 0]
    ELSE IF sql = "DELETE"
    THEN [db |-> SqlDelete(db, "leagues", p.id), err |-> "",
          rowcount |-> IF Exists(db, "leagues", p.id) THEN 1 ELSE 0]
    ELSE [db |-> db, err |-> "", rowcount |-> 0 - 1]

\* cursor.executemany(query, params_list): the parameter sets in order, stopping at
\* the first error with the earlier ones applied
ExecuteManyStep(file, sql, st, p) ==
    IF st.err # "" THEN st
    ELSE LET r == CursorExecute(file, st.db, sql, p)
         IN IF r.err # "" THEN [st EXCEPT !.err = r.err]
            ELSE [st EXCEPT !.db = r.db, !.count = @ + r.rowcount]

CursorExecuteMany(file, db, sql, params_list) ==
    LET Step(st, p) == ExecuteManyStep(file, sql, st, p)
    IN IF sql = "MALFORMED" THEN [Start(db) EXCEPT !.err = "OperationalError"]
       ELSE ForEach(Step, Start(db), params_list)

\* a mutant: no helper rolls back
RollsBackNever(op) == FALSE

\* whether the helper's except block calls conn.rollback()
RollsBack(op) == op \in {"execute_query", "execute_many"}

\* a mutant: the commit is left to the caller
CommitsNever(op) == FALSE

\* whether the helper calls conn.commit() after the statement
Commits(op) == op \in {"execute_query", "execute_many"}

\* a helper ran a statement: what it leaves in the connection's view and on disk,
\* and what the caller and the log see
Helper(op, input, r, ret) ==
    /\ connOpen
    /\ work' = IF r.err = "" THEN r.db
               ELSE IF RollsBack(op) THEN disk ELSE r.db
    /\ disk' = IF r.err = "" /\ Commits(op) THEN r.db ELSE disk
    /\ call' = [op |-> op, input |-> input, err |-> "", raised |-> r.err,
                logged |-> r.err # "", pending |-> work # disk,
                ret |-> IF r.err = "" THEN ret ELSE <<>>]
    /\ UNCHANGED <<dbFile, fkOn, connOpen, api, schema, indexes>>

ExecuteQuery ==
    \E sql \in WriteSql, p \in Params :
        LET r == CursorExecute(dbFile, work, sql, p)
        IN Helper("execute_query", <<sql, p>>, r, <<r.rowcount>>)

ExecuteMany ==
    \E sql \in {"INSERT", "MALFORMED"}, params_list \in ListsUpTo(Params, MaxBatch) :
        LET r == CursorExecuteMany(dbFile, work, sql, params_list)
        IN Helper("execute_many", <<sql, params_list>>, r, <<r.count>>)

\* SELECT name FROM leagues WHERE id = ?  and fetchone(): the row, or None
FetchOne ==
    \E sql \in ReadSql, p \in Params :
        LET r == CursorExecute(dbFile, work, sql, p)
            row == IF Exists(work, "leagues", p.id)
                   THEN <<work["leagues"][p.id].name>> ELSE <<>>
        IN Helper("fetch_one", <<sql, p>>, r, row)

\* SELECT id FROM leagues ORDER BY id  and fetchall()
FetchAll ==
    \E sql \in ReadSql :
        LET r == CursorExecute(dbFile, work, sql, <<>>)
        IN Helper("fetch_all", <<sql>>, r, OrderBy(Rows(work, "leagues")))

\* how each function obtains its connection: db_manager's create_connection,
\* or sqlite3.connect called directly
OpensWith(op) == IF op = "update_players" THEN "sqlite3.connect" ELSE "create_connection"

\* create_connection executes PRAGMA foreign_keys = ON before it returns the
\* connection; a connection from sqlite3.connect has SQLite's default, off
ForeignKeys(opener) == opener = "create_connection"

\* create_connection: sqlite3.connect creates a missing file, without the schema
CreateConnection ==
    /\ ~connOpen
    /\ connOpen' = TRUE
    /\ fkOn' = TRUE
    /\ dbFile' = IF dbFile = "absent" THEN "empty" ELSE dbFile
    /\ work' = disk
    /\ call' = [op |-> "create_connection", err |-> ""]
    /\ UNCHANGED <<disk, api, schema, indexes>>

\* conn.close(): what was not committed is gone
CloseConnection ==
    /\ connOpen
    /\ connOpen' = FALSE
    /\ work' = disk
    /\ call' = [op |-> "close", err |-> ""]
    /\ UNCHANGED <<dbFile, disk, fkOn, api, schema, indexes>>

\* setup_database: create_table for every table of the schema, then
\* create_indexes for every index group, on a connection of its own
setup_database(file, db, idx, sch) ==
    LET Group(acc, group) == create_indexes("ready", acc, group)
        run == ForEach(Group, IndexRun(idx), sch)
    IN [file |-> "ready", db |-> db, err |-> "", indexes |-> run.indexes,
        executed |-> run.executed, logged |-> run.logged]

\* a mutant: the confirmation is not checked
reset_database_ungated(file, db, idx, sch, confirm) ==
    setup_database("absent", EmptyDb, {}, sch)

\* reset_database(db_path, confirm)
reset_database(file, db, idx, sch, confirm) ==
    IF ~confirm
    THEN [file |-> file, db |-> db, err |-> "ValueError", indexes |-> idx,
          executed |-> <<>>, logged |-> 0]
    ELSE IF file # "absent" THEN setup_database("absent", EmptyDb, {}, sch)
    ELSE setup_database(file, db, idx, sch)

SetupDatabase ==
    /\ LET r == setup_database(dbFile, disk, indexes, schema)
       IN /\ dbFile' = r.file
          /\ disk' = r.db
          /\ indexes' = r.indexes
          /\ call' = [op |-> "setup_database", err |-> "", raised |-> r.err,
                      executed |-> r.executed, logged |-> r.logged,
                      foreign_keys |-> ForeignKeys(OpensWith("setup_database"))]
    /\ UNCHANGED <<work, fkOn, connOpen, api, schema>>

\* reset_database from a process that holds no connection to the file
ResetDatabase ==
    \E confirm \in BOOLEAN :
        /\ ~connOpen
        /\ LET r == reset_database(dbFile, disk, indexes, schema, confirm)
           IN /\ dbFile' = r.file
              /\ disk' = r.db
              /\ work' = r.db
              /\ indexes' = r.indexes
              /\ call' = [op |-> "reset_database", confirm |-> confirm, err |-> "",
                          raised |-> r.err, fileBefore |-> dbFile,
                          rowsBefore |-> RowCount(disk, "leagues")]
        /\ UNCHANGED <<fkOn, connOpen, api, schema>>

\* create_indexes(conn, indexes) on the open connection, committed at its end
CreateIndexes ==
    \E index_list \in ListsUpTo(IndexStatements, MaxIndexes) :
        /\ connOpen
        /\ LET r == create_indexes(dbFile, IndexRun(indexes), index_list)
           IN /\ indexes' = r.indexes
              /\ call' = [op |-> "create_indexes", input |-> index_list, err |-> "",
                          raised |-> "", executed |-> r.executed, logged |-> r.logged]
        /\ disk' = work
        /\ UNCHANGED <<dbFile, work, fkOn, connOpen, api, schema>>

InitDb ==
    /\ dbFile = "absent"
    /\ schema = DefaultSchema
    /\ indexes = {}
    /\ disk = EmptyDb
    /\ work = EmptyDb
    /\ fkOn = FALSE
    /\ connOpen = FALSE
    /\ call = NoCall
    /\ api = ApiIdle

NextDb ==
    \/ CreateConnection
    \/ CloseConnection
    \/ SetupDatabase
    \/ ResetDatabase
    \/ ExecuteQuery
    \/ ExecuteMany
    \/ FetchOne
    \/ FetchAll
    \/ UpdateLeagues
    \/ HandleError

SpecDb == InitDb /\ [][NextDb]_vars

\* C9: reset_database without confirm=True raises ValueError and leaves the file,
\* its rows and the connection's view as they were; with confirm=True it ends
\* with the file set up and every table empty.
C9_ResetGated ==
    [][call'.op = "reset_database" =>
          IF call'.confirm
          THEN /\ call'.raised = ""
               /\ dbFile' = "ready"
               /\ \A t \in TableNames : Rows(disk', t) = {}
          ELSE /\ call'.raised = "ValueError"
               /\ dbFile' = dbFile
               /\ disk' = disk
               /\ work' = work]_vars

C9_Witness ==
    /\ call.op = "reset_database"
    /\ call.confirm
    /\ call.fileBefore = "ready"
    /\ call.rowsBefore > 0
    /\ dbFile = "ready"
    /\ \A t \in TableNames : Rows(disk, t) = {}

Writers == {"execute_query", "execute_many"}

Readers == {"fetch_one", "fetch_all"}

\* C10 as stated: after any of the four helpers met a sqlite3 error, the error is
\* logged and the connection has no uncommitted change left; after a successful
\* execute_query or execute_many everything is committed.
C10_Original ==
    call.op \in Writers \cup Readers =>
        /\ call.raised # "" => (call.logged /\ work = disk)
        /\ (call.raised = "" /\ call.op \in Writers) => work = disk

\* the statement's effect, as a later reader of the file sees it
Durable(op, input) ==
    LET sql == input[1]
        ps == IF op = "execute_query" THEN {input[2]}
              ELSE {input[2][i] : i \in 1..Len(input[2])}
    IN \A p \in ps :
           /\ sql = "INSERT" =>
                  /\ p.id \in Rows(disk', "leagues")
                  /\ disk'["leagues"][p.id].name = p.name
           /\ sql = "UPDATE" =>
                  (p.id \in Rows(work, "leagues") =>
                       disk'["leagues"][p.id].name = p.name)
           /\ sql = "DELETE" => p.id \notin Rows(disk', "leagues")

\* C10, amended: on a sqlite3 error every helper logs it and re-raises;
\* execute_query and execute_many also roll the connection back to what is
\* committed, while fetch_one and fetch_all leave the open transaction as it
\* was; on success execute_query and execute_many commit, the statement's effect
\* included.
C10_HelpersOnError ==
    [][call'.op \in Writers \cup Readers =>
          /\ call'.raised # "" => call'.logged
          /\ (call'.op \in Writers /\ call'.raised # "") =>
                 (work' = disk' /\ disk' = disk)
          /\ (call'.op \in Readers /\ call'.raised # "") =>
                 (work' = work /\ disk' = disk)
          /\ (call'.op \in Readers /\ call'.raised = "") =>
                 (work' = work /\ disk' = disk)
          /\ (call'.op \in Writers /\ call'.raised = "") =>
                 (disk' = work' /\ Durable(call'.op, call'.input))]_vars

C10_Witness ==
    /\ call.op = "execute_many"
    /\ call.raised = "IntegrityError"
    /\ Len(call.input[2]) = 2
    /\ call.input[2][1].id # call.input[2][2].id
    /\ call.pending
    /\ call.logged
    /\ work = disk

(***************************************************************************)
(* Schema setup on a schema whose index definitions are any of the model's *)
(* choices.                                                                *)
(***************************************************************************)
InitSchema ==
    /\ dbFile = "absent"
    /\ schema \in SchemaChoices
    /\ indexes = {}
    /\ disk = EmptyDb
    /\ work = EmptyDb
    /\ fkOn = FALSE
    /\ connOpen = FALSE
    /\ call = NoCall
    /\ api = ApiIdle

NextSchema ==
    \/ CreateConnection
    \/ CloseConnection
    \/ SetupDatabase
    \/ ResetDatabase
    \/ CreateIndexes

SpecSchema == InitSchema /\ [][NextSchema]_vars

\* the statements of all groups, in order
AllStatements(sch) ==
    LET Cat(acc, group) == acc \o group
    IN ForEach(Cat, <<>>, sch)

\* the names of the statements of a list that are on a table of the schema
GoodNames(index_list) ==
    {index_list[i].name : i \in {j \in 1..Len(index_list) : index_list[j].on \in TableNames}}

KnownKinds == {"goalie_change", "faceoff", "hit", "shot", "blocked_shot", "goal",
               "penalty", "shootout"}

TableOf(kind) ==
    CASE kind = "goalie_change" -> "pbp_goalie_changes"
      [] kind = "faceoff" -> "pbp_faceoffs"
      [] kind = "hit" -> "pbp_hits"
      [] kind = "shot" -> "pbp_shots"
      [] kind = "blocked_shot" -> "pbp_blocked_shots"
      [] kind = "goal" -> "pbp_goals"
      [] kind = "penalty" -> "pbp_penalties"
      [] kind = "shootout" -> "pbp_shootouts"

\* the kind's part of the id: f"{game_id}_goalie_...", f"{game_id}_blocked_..."
IdTag(kind) ==
    CASE kind = "goalie_change" -> "goalie"
      [] kind = "blocked_shot" -> "blocked"
      [] OTHER -> kind

\* time.replace(':', '_')
ReplaceColon(time) == [i \in DOMAIN time |-> IF time[i] = ":" THEN "_" ELSE time[i]]

\* event_id, the primary key of the row to insert
EventId(kind, game_id, event) ==
    CASE kind = "goalie_change" ->
             <<game_id, "goalie", Get(event, "period_id", ""),
               ReplaceColon(Get(event, "time", <<>>)), Get(event, "team_code", "")>>
      [] kind = "faceoff" ->
             <<game_id, "faceoff", Get(event, "period", ""),
               ReplaceColon(Get(event, "time_formatted", <<>>))>>
      [] OTHER -> <<game_id, IdTag(kind), Get(event, "id", "")>>

\* the fields the handler passes to int() before its try block
IntFields(kind) ==
    CASE kind = "goalie_change" -> {"period_id", "s", "team_id"}
      [] kind = "faceoff" -> {"period", "s", "home_player_id", "visitor_player_id",
                              "win_team_id", "x_location", "y_location", "location_id"}
      [] kind = "hit" -> {"period", "s", "player_id", "team_id", "x_location",
                          "y_location", "hit_type"}
      [] kind = "shot" -> {"player_id", "team_id", "period_id", "s", "x_location",
                           "y_location", "shot_type", "quality"}
      [] kind = "blocked_shot" -> {"player_id", "team_id", "blocker_player_id",
                                   "blocker_team_id", "period", "s", "x_location",
                                   "y_location", "orientation", "shot_type", "quality"}
      [] kind = "goal" -> {"team_id", "goal_player_id", "s", "x_location", "y_location",
                           "scorer_goal_num"}
      [] kind = "penalty" -> {"player_id", "player_served", "team_id", "offence",
                              "penalty_class_id"}
      [] kind = "shootout" -> {"player_id", "team_id", "shot_order", "s"}

\* whether one of the int() conversions raises ValueError
ConversionFails(kind, event) == \E f \in IntFields(kind) : ~IntField(event, f).ok

\* the columns of the handler's SELECT ... WHERE: the synthesized id for six
\* kinds, event columns for goalie changes and faceoffs
CheckKey(kind, game_id, event) ==
    CASE kind = "goalie_change" ->
             <<game_id, IntField(event, "period_id").val, Get(event, "time", <<>>),
               IntField(event, "team_id").val>>
      [] kind = "faceoff" ->
             <<game_id, IntField(event, "period").val, Get(event, "time", <<>>),
               IntField(event, "home_player_id").val,
               IntField(event, "visitor_player_id").val>>
      [] OTHER -> <<game_id, EventId(kind, game_id, event)>>

\* the ids of the rows the existence check selects
Matching(db, kind, game_id, event) ==
    {k \in DOMAIN db[TableOf(kind)] :
        db[TableOf(kind)][k].key = CheckKey(kind, game_id, event)}

\* the team the event is credited to
EventTeam(kind, event) ==
    IF kind = "faceoff" THEN IntField(event, "win_team_id").val
    ELSE IntField(event, "team_id").val

EventRow(kind, event, game_id, season_id, home_team_id, away_team_id) ==
    [game_id |-> game_id, season_id |-> season_id,
     key |-> CheckKey(kind, game_id, event),
     seconds |-> IntField(event, "s").val,
     opponent_team_id |-> IF EventTeam(kind, event) = home_team_id
                          THEN away_team_id ELSE home_team_id]

\* The body shared by the handlers: the conversions, then inside the try block
\* the existence check and the UPDATE of the row found or the INSERT under
\* event_id; a sqlite3.Error (the INSERT meeting a stored id) is logged and the
\* handler returns False.
HandleEvent(db, kind, event, game_id, season_id, home_team_id, away_team_id) ==
    LET t == TableOf(kind)
        row == EventRow(kind, event, game_id, season_id, home_team_id, away_team_id)
        found == Matching(db, kind, game_id, event)
        id == EventId(kind, game_id, event)
    IN IF ConversionFails(kind, event)
       THEN [db |-> db, ret |-> FALSE, raised |-> "ValueError", existed |-> FALSE]
       ELSE IF found # {}
       THEN [db |-> SqlUpdate(db, t, CHOOSE k \in found : TRUE,
                              [seconds |-> row.seconds,
                               opponent_team_id |-> row.opponent_team_id]),
             ret |-> TRUE, raised |-> "", existed |-> TRUE]
       ELSE IF Exists(db, t, id)
       THEN [db |-> db, ret |-> FALSE, raised |-> "", existed |-> FALSE]
       ELSE [db |-> SqlInsert(db, t, id, row), ret |-> TRUE, raised |-> "",
             existed |-> FALSE]

\* a mutant: the DELETE has no WHERE clause
DeleteOfGoalAll(db, t, goal_id) == [db EXCEPT ![t] = EmptyTable]

\* a mutant: the rows of the goal's earlier version are left in place
DeleteOfGoalNone(db, t, goal_id) == db

\* DELETE FROM t WHERE goal_id = ?
DeleteOfGoal(db, t, goal_id) ==
    [db EXCEPT ![t] = [k \in {j \in DOMAIN @ : @[j].goal_id # goal_id} |-> @[k]]]

\* one player of process_goal_plus_players / process_goal_minus_players:
\* inserted under f"{goal_id}_plus_{player_id}" unless the goal has the player.
\* The int() conversions stand inside a try that catches sqlite3.Error only: a
\* non-numeric value raises ValueError out of the loop and out of process_goal.
GoalPlayerStep(t, word, goal_id, game_id, season_id, acc, player) ==
    LET player_id == IntField(player, "player_id")
        id == <<goal_id, word, player_id.val>>
    IN IF acc.raised # "" THEN acc
       ELSE IF ~player_id.ok \/ ~IntField(player, "team_id").ok
               \/ ~IntField(player, "jersey_number").ok
       THEN [acc EXCEPT !.raised = "ValueError"]
       ELSE IF \E k \in DOMAIN acc.db[t] :
                  acc.db[t][k].goal_id = goal_id /\ acc.db[t][k].player_id = player_id.val
       THEN acc
       ELSE IF Exists(acc.db, t, id) THEN acc
       ELSE [acc EXCEPT !.db = SqlInsert(acc.db, t, id,
                                         [goal_id |-> goal_id, game_id |-> game_id,
                                          season_id |-> season_id,
                                          player_id |-> player_id.val])]

\* [db, raised]: the rows after the loop, and the exception that ended it
process_goal_plus_players(db, goal_id, game_id, season_id, plus_players) ==
    LET Step(acc, player) ==
            GoalPlayerStep("pbp_goals_plus", "plus", goal_id, game_id, season_id, acc, player)
    IN ForEach(Step, [db |-> db, raised |-> ""], plus_players)

process_goal_minus_players(db, goal_id, game_id, season_id, minus_players) ==
    LET Step(acc, player) ==
            GoalPlayerStep("pbp_goals_minus", "minus", goal_id, game_id, season_id, acc, player)
    IN ForEach(Step, [db |-> db, raised |-> ""], minus_players)

\* the minus rows, once the plus rows were written
GoalMinusRows(plussed, event, goal_id, game_id, season_id) ==
    IF plussed.raised # "" THEN plussed
    ELSE process_goal_minus_players(plussed.db, goal_id, game_id, season_id,
                                    Get(event, "minus", <<>>))

\* the goal's plus and minus rows after the goal row was written: deleted when
\* the goal was already stored, then inserted from the event's lists
GoalPlayerRows(db, existed, event, goal_id, game_id, season_id) ==
    GoalMinusRows(
        process_goal_plus_players(
            IF existed
            THEN DeleteOfGoal(DeleteOfGoal(db, "pbp_goals_plus", goal_id),
                              "pbp_goals_minus", goal_id)
            ELSE db,
            goal_id, game_id, season_id, Get(event, "plus", <<>>)),
        event, goal_id, game_id, season_id)

\* process_goal returns True once both lists were processed; an exception of
\* theirs leaves it without a return value
GoalWritten(r, rows) ==
    [r EXCEPT !.db = rows.db, !.raised = rows.raised, !.ret = rows.raised = ""]

\* what process_goal returns once the shared body gave r
GoalResult(r, event, goal_id, game_id, season_id) ==
    IF r.raised # "" \/ ~r.ret THEN r
    ELSE GoalWritten(r, GoalPlayerRows(r.db, r.existed, event, goal_id, game_id,
                                       season_id))

\* process_goal: the shared body, and around it the goal's plus and minus rows
process_goal(db, event, game_id, season_id, home_team_id, away_team_id) ==
    GoalResult(HandleEvent(db, "goal", event, game_id, season_id, home_team_id,
                           away_team_id),
               event, EventId("goal", game_id, event), game_id, season_id)

\* the handler of a kind
Handler(db, kind, event, game_id, season_id, home_team_id, away_team_id) ==
    IF kind = "goal"
    THEN process_goal(db, event, game_id, season_id, home_team_id, away_team_id)
    ELSE HandleEvent(db, kind, event, game_id, season_id, home_team_id, away_team_id)

(***************************************************************************)
(* play_by_play.py, process_game_play_by_play.  A name the function uses   *)
(* is bound when it is a parameter or a local assigned before the loop;    *)
(* evaluating an unbound name raises NameError.                            *)
(***************************************************************************)
LocalNames == {"conn", "game_id", "season_id", "client", "pbp_data", "home_team",
               "visiting_team", "events", "total_processed", "event", "event_type"}

\* the arguments of every handler call in the dispatch
DispatchArgs == <<"conn", "event", "game_id", "season_id", "home_team_id", "away_team_id">>

Unbound(args) == \E i \in DOMAIN args : args[i] \notin LocalNames

\* get_game_teams: (home_team, visiting_team) of the games row, (None, None)
\* without one
get_game_teams(db, game_id) ==
    IF Exists(db, "games", game_id)
    THEN <<db["games"][game_id].home_team, db["games"][game_id].visiting_team>>
    ELSE <<NoneInt, NoneInt>>

\* the value of a bound team argument
TeamArg(name, teams) ==
    LET v == IF name = "home_team" THEN teams[1] ELSE teams[2]
    IN IF v = NoneInt THEN 0 ELSE v[1]

\* what one turn leaves once the handler call was evaluated and gave r
DispatchResult(called, r) ==
    IF r.raised # ""
    THEN [called EXCEPT !.logged = Append(@, <<called.visited, r.raised>>)]
    ELSE [called EXCEPT !.db = r.db,
                        !.count = IF r.ret THEN @ + 1 ELSE @,
                        !.counted = IF r.ret THEN @ \cup {called.visited} ELSE @]

\* One turn of the dispatch loop: a known tag evaluates the handler call inside
\* the try; any exception is logged and the loop goes on.  `visited` counts the
\* events the loop reached, `handled` lists the handler calls made and `logged`
\* the exceptions caught, each with the position of its event; `counted` holds
\* the positions that added to total_processed.
DispatchStep(game_id, season_id, teams, st, event) ==
    LET event_type == Get(event, "event", PyNone)
        seen == [st EXCEPT !.visited = @ + 1]
    IN IF event_type \notin KnownKinds THEN seen
       ELSE IF Unbound(DispatchArgs)
       THEN [seen EXCEPT !.logged = Append(@, <<seen.visited, "NameError">>)]
       ELSE DispatchResult(
                [seen EXCEPT !.handled = Append(@, <<seen.visited, event_type>>)],
                Handler(st.db, event_type, event, game_id, season_id,
                        TeamArg(DispatchArgs[5], teams),
                        TeamArg(DispatchArgs[6], teams)))

PbpRun(db) ==
    [db |-> db, count |-> 0, visited |-> 0, handled |-> <<>>, logged |-> <<>>,
     counted |-> {}, committed |-> FALSE]

\* process_game_play_by_play(conn, game_id, season_id) on the payload the client
\* fetched
process_game_play_by_play(db, pbp_data, game_id, season_id) ==
    LET teams == get_game_teams(db, game_id)
        Step(st, event) == DispatchStep(game_id, season_id, teams, st, event)
    IN IF ~("GC" \in DOMAIN pbp_data /\ "Pxpverbose" \in DOMAIN pbp_data.GC)
       THEN PbpRun(db)
       ELSE IF ~TruthyInt(teams[1]) \/ ~TruthyInt(teams[2])
       THEN PbpRun(db)
       ELSE [ForEach(Step, PbpRun(db), pbp_data.GC.Pxpverbose) EXCEPT !.committed = TRUE]

Clock1000 == <<"10", ":", "00">>

Clock0000 == <<"0", ":", "00">>

\* the events of the model
Events ==
    {[event |-> "faceoff", period |-> "1", time |-> Clock1000, time_formatted |-> Clock1000,
      home_player_id |-> hp, visitor_player_id |-> "3", s |-> "6"] : hp \in {"1", "2"}}
    \cup {[event |-> "goalie_change", period_id |-> "1", time |-> Clock0000,
           team_id |-> t, s |-> "0"] : t \in {"1", "2"}}
    \cup {[event |-> "goal", id |-> "1", team_id |-> "1", goal_player_id |-> "1",
           s |-> "6", plus |-> <<[player_id |-> "7"]>>],
          [event |-> "goal", id |-> "1", team_id |-> "1", goal_player_id |-> "1",
           s |-> "7"],
          [event |-> "shot", id |-> "2", team_id |-> "2", s |-> "6"],
          [event |-> "hit", id |-> "3", s |-> "abc"],
          [event |-> "blocked_shot", id |-> "4"],
          [event |-> "penalty", id |-> "5"],
          [event |-> "shootout", id |-> "6"],
          [event |-> "period_start", id |-> "7"],
          [id |-> "8"]}

\* the events the longer payloads of the model are made of
CoreEvents ==
    {e \in Events : Get(e, "event", PyNone) \in {"shot", "hit", "period_start"}
                    \/ (Get(e, "event", PyNone) = "goal" /\ "plus" \in DOMAIN e)}

\* the payloads of the model: nothing, no event list, one event of any kind, or a
\* list of core events
Payloads ==
    {<<>>, [GC |-> <<>>]}
    \cup {[GC |-> [Pxpverbose |-> <<e>>]] : e \in Events}
    \cup {[GC |-> [Pxpverbose |-> events]] : events \in ListsUpTo(CoreEvents, MaxEvents)}

\* the plus and minus rows of the goals
StoredGoalPlayers(db) == UNION {{<<t, k>> : k \in DOMAIN db[t]} : t \in GoalSubTables}

\* the rows of the eight event tables
StoredEvents(db) == UNION {{<<t, k>> : k \in DOMAIN db[t]} : t \in PbpTables}

\* a game with its two teams arrives in the games table
StoreGame ==
    \E g \in GameIds :
        /\ connOpen
        /\ ~Exists(work, "games", g)
        /\ work' = SqlInsert(work, "games", g,
                             [season_id |-> 1, status |-> "Final",
                              home_team |-> Some(1), visiting_team |-> Some(2)])
        /\ disk' = work'
        /\ call' = [op |-> "insert", err |-> ""]
        /\ UNCHANGED <<dbFile, fkOn, connOpen, api, schema, indexes>>

ProcessGamePlayByPlay ==
    \E pbp_data \in Payloads, g \in GameIds :
        LET r == process_game_play_by_play(work, pbp_data, g, 1)
        IN /\ connOpen
           /\ work' = r.db
           /\ disk' = IF r.committed THEN r.db ELSE disk
           /\ call' = [op |-> "process_game_play_by_play", input |-> <<pbp_data, g>>,
                       err |-> "", raised |-> "", ret |-> r.count, visited |-> r.visited,
                       handled |-> r.handled, logged |-> r.logged,
                       counted |-> r.counted, committed |-> r.committed,
                       storedBefore |-> StoredEvents(work)]
           /\ UNCHANGED <<dbFile, fkOn, connOpen, api, schema, indexes>>

\* one handler called on an event of its kind, as its signature allows; the
\* write stays in the connection's open transaction
ProcessEvent ==
    \E event \in {e \in Events : Get(e, "event", PyNone) \in KnownKinds}, g \in GameIds :
        LET r == Handler(work, event.event, event, g, 1, 1, 2)
        IN /\ connOpen
           /\ Get(call, "err", "") = ""
           /\ Cardinality(StoredEvents(r.db)) <= MaxEventRows
           /\ work' = r.db
           /\ call' = [op |-> "process_event", kind |-> event.event, input |-> <<event, g>>,
                       err |-> "", raised |-> r.raised, ret |-> r.ret,
                       existed |-> r.existed,
                       subRowsBefore |-> Cardinality(StoredGoalPlayers(work))]
           /\ UNCHANGED <<dbFile, disk, fkOn, connOpen, api, schema, indexes>>

InitPbp ==
    /\ dbFile = "ready"
    /\ schema = DefaultSchema
    /\ indexes = SetupIndexes(DefaultSchema)
    /\ disk = EmptyDb
    /\ work = EmptyDb
    /\ fkOn = TRUE
    /\ connOpen = TRUE
    /\ call = NoCall
    /\ api = ApiIdle

NextPbp ==
    \/ StoreGame
    \/ ProcessGamePlayByPlay

SpecPbp == InitPbp /\ [][NextPbp]_vars

NextHandlers == ProcessEvent

\* the players of a plus or minus list
GoalPlayers == [n \in {"7", "8", "9", "abc"} |-> [player_id |-> n]]

\* versions of goal 1 of a game, with different plus and minus lists, and a
\* second goal
GoalEvents ==
    {[event |-> "goal", id |-> "1", team_id |-> "1", goal_player_id |-> "1", s |-> "6"],
     [event |-> "goal", id |-> "2", team_id |-> "1", goal_player_id |-> "1", s |-> "6",
      plus |-> <<GoalPlayers["7"]>>, minus |-> <<GoalPlayers["9"]>>]}
    \cup {[event |-> "goal", id |-> "1", team_id |-> "1", goal_player_id |-> "1",
           s |-> "6", plus |-> pm[1], minus |-> pm[2]] :
              pm \in {<<<<GoalPlayers["7"]>>, <<>>>>,
                      <<<<GoalPlayers["7"], GoalPlayers["8"]>>,
                        <<GoalPlayers["9"], GoalPlayers["7"]>>>>,
                      <<<<GoalPlayers["8"], GoalPlayers["8"]>>, <<>>>>,
                      <<<<GoalPlayers["7"], GoalPlayers["abc"]>>, <<GoalPlayers["9"]>>>>}}

\* process_goal called on a goal event of a game
ProcessGoal ==
    \E event \in GoalEvents, g \in GameIds :
        LET r == process_goal(work, event, g, 1, 1, 2)
        IN /\ connOpen
           /\ work' = r.db
           /\ call' = [op |-> "process_goal", input |-> <<event, g>>, err |-> "",
                       raised |-> r.raised, ret |-> r.ret, existed |-> r.existed]
           /\ UNCHANGED <<dbFile, disk, fkOn, connOpen, api, schema, indexes>>

NextGoals == ProcessGoal

\* process_goal on the versions of a goal
SpecGoals == InitPbp /\ [][NextGoals]_vars

SpecHandlers == InitPbp /\ [][NextHandlers]_vars

\* update_leagues called with one league, before any event of a game is stored
\* (the basic-info run comes before the play-by-play run)
UpdateOneLeague ==
    \E league \in LeagueRecs :
        /\ StoredEvents(work) = {}
        /\ Ran("update_leagues", <<league>>, "leagues", update_leagues(work, <<league>>))

\* update_leagues, then the handlers
NextStore ==
    \/ ProcessEvent
    \/ UpdateOneLeague
    \/ HandleError

SpecStore == InitPbp /\ [][NextStore]_vars

(***************************************************************************)
(* The top-level runs: update_basic_info, update_play_by_play and          *)
(* update_players.  Each opens a connection of its own, runs its body in   *)
(* a try block and closes the connection in the finally block; a run is    *)
(* two steps, the opening of its connection and the rest.                  *)
(***************************************************************************)
TopLevelRuns == {"update_basic_info", "update_play_by_play", "update_players"}

\* whether the except block of a run ends with `raise`
Reraises(op) == op # "update_players"

\* the exceptions sqlite3 raises
DatabaseErrors == {"OperationalError", "IntegrityError"}

\* get_current_season_id: the first row flagged current, else the highest id,
\* else None
get_current_season_id(db) ==
    LET flagged == {k \in Rows(db, "seasons") : db["seasons"][k].current = 1}
    IN IF flagged # {} THEN Some(CHOOSE k \in flagged : \A j \in flagged : k <= j)
       ELSE IF Rows(db, "seasons") # {}
       THEN Some(CHOOSE k \in Rows(db, "seasons") : \A j \in Rows(db, "seasons") : j <= k)
       ELSE NoneInt

\* the scraper a stage of update_basic_info calls on what the client fetched;
\* the teams are fetched and stored only when a current season is found
BasicInfoScraper(name, db, feed) ==
    CASE name = "leagues" -> update_leagues(db, feed.leagues)
      [] name = "conferences" -> update_conferences(db, feed.conferences)
      [] name = "divisions" -> update_divisions(db, feed.divisions)
      [] name = "seasons" -> update_seasons(db, Get(feed.seasons, "seasons", <<>>))
      [] name = "teams" ->
             IF get_current_season_id(db) = NoneInt THEN Start(db)
             ELSE update_teams(db, Get(feed.teams, "teams", <<>>),
                               get_current_season_id(db)[1], 1)

\* the client call a stage of update_basic_info makes before its scraper
ClientCalls(name, db) ==
    CASE name = "leagues" -> <<"fetch_basic_info">>
      [] name = "seasons" -> <<"fetch_seasons_list">>
      [] name = "teams" /\ get_current_season_id(db) # NoneInt -> <<"fetch_teams_by_season">>
      [] OTHER -> <<>>

\* what a run has done so far: the rows committed, the count it will return
\* and the exception that ended its try block
RunStart(db) ==
    [db |-> db, total |-> 0, err |-> "", fetched |-> <<>>, processed |-> <<>>,
     queried |-> FALSE]

\* a scraper of the run returned: it committed its rows, or raised
AfterScraper(prev, run) ==
    IF run.err = ""
    THEN [prev EXCEPT !.db = run.db, !.total = @ + run.count]
    ELSE [prev EXCEPT !.err = run.err]

BasicInfoStage(feed, prev, name) ==
    IF prev.err # "" THEN prev
    ELSE AfterScraper([prev EXCEPT !.fetched = @ \o ClientCalls(name, prev.db)],
                      BasicInfoScraper(name, prev.db, feed))

\* the try block of update_basic_info; on a file without the tables the first
\* statement raises (get_current_season_id always executes one)
update_basic_info(file, db, feed) ==
    LET Step(prev, name) == BasicInfoStage(feed, prev, name)
    IN IF file # "ready"
       THEN [RunStart(db) EXCEPT !.err = "OperationalError",
                                 !.fetched = <<"fetch_basic_info">>]
       ELSE ForEach(Step, RunStart(db),
                    <<"leagues", "conferences", "divisions", "seasons", "teams">>)

\* get_season_id_for_game
get_season_id_for_game(db, game_id) ==
    IF Exists(db, "games", game_id) THEN Some(db["games"][game_id].season_id) ELSE NoneInt

\* one game of update_play_by_play: process_game_play_by_play commits what it
\* wrote when it reaches its loop
PlayByPlayStage(pbp_data, prev, game) ==
    AfterScraper([prev EXCEPT !.processed =
                      Append(@, <<game[1], game[2],
                                  process_game_play_by_play(prev.db, pbp_data, game[1],
                                                            game[2]).count>>)],
                 [db |-> process_game_play_by_play(prev.db, pbp_data, game[1],
                                                   game[2]).db,
                  count |-> process_game_play_by_play(prev.db, pbp_data, game[1],
                                                      game[2]).count,
                  err |-> ""])

\* games_to_process[:limit] under `if limit:`; None and 0 are falsy, a negative
\* limit drops that many games from the end
Limited(games_to_process, limit) ==
    IF ~TruthyInt(limit) THEN games_to_process
    ELSE IF limit[1] > 0
    THEN SubSeq(games_to_process, 1,
                IF limit[1] < Len(games_to_process) THEN limit[1]
                ELSE Len(games_to_process))
    ELSE SubSeq(games_to_process, 1,
                IF Len(games_to_process) + limit[1] > 0
                THEN Len(games_to_process) + limit[1] ELSE 0)

\* a mutant: the game_id argument is ignored and the backfill runs
update_play_by_play_backfills(file, db, game_id, limit, pbp_data) ==
    LET Step(prev, game) == PlayByPlayStage(pbp_data, prev, game)
    IN IF file # "ready" THEN [RunStart(db) EXCEPT !.err = "OperationalError"]
       ELSE ForEach(Step, [RunStart(db) EXCEPT !.queried = TRUE],
                    Limited(get_games_without_play_by_play(db), limit))

\* the try block of update_play_by_play, for one game (game_id truthy) or for
\* the games without events; either way its first statement is a SELECT
update_play_by_play(file, db, game_id, limit, pbp_data) ==
    LET Step(prev, game) == PlayByPlayStage(pbp_data, prev, game)
    IN IF file # "ready" THEN [RunStart(db) EXCEPT !.err = "OperationalError"]
       ELSE IF game_id # 0
       THEN IF ~TruthyInt(get_season_id_for_game(db, game_id)) THEN RunStart(db)
            ELSE Step(RunStart(db), <<game_id, get_season_id_for_game(db, game_id)[1]>>)
       ELSE ForEach(Step, [RunStart(db) EXCEPT !.queried = TRUE],
                    Limited(get_games_without_play_by_play(db), limit))

\* the try block of update_players for one player id: update_player runs its
\* SELECT when the client returned a payload, and commits what it writes
update_players(file, db, player_data) ==
    IF player_data = <<>> THEN RunStart(db)
    ELSE IF file # "ready" THEN [RunStart(db) EXCEPT !.err = "OperationalError"]
    ELSE [db |-> update_player(db, player_data).db,
          total |-> IF update_player(db, player_data).ret THEN 1 ELSE 0,
          err |-> "", fetched |-> <<>>, processed |-> <<>>, queried |-> FALSE]

\* the seasons and teams responses of the client: the list under the key the
\* scraper reads, or the API's own nesting (test_update_basic_info)
SeasonsResponses ==
    {[seasons |-> s] :
        s \in {<<>>} \cup {<<r>> : r \in {x \in SeasonRecs : "default_sort" \in DOMAIN x}}}
    \cup {[SiteKit |-> [Seasons |-> <<[season_id |-> "1", season_name |-> "2023-2024",
                                       career |-> "1", playoff |-> "0"]>>]]}

TeamsResponses ==
    {[teams |-> t] : t \in ListsUpTo(TeamRecs, MaxFeed)}
    \cup {[SiteKit |-> [Teamsbyseason |-> <<[id |-> "1", name |-> "Team",
                                             code |-> "TEAM"]>>]]}

\* what the client fetched for a run of update_basic_info
Feeds ==
    {[leagues |-> l, conferences |-> c, divisions |-> d, seasons |-> s, teams |-> t] :
        l \in ListsUpTo(LeagueRecs, MaxFeed),
        c \in {<<>>} \cup {<<r>> : r \in {x \in ConferenceRecs : x.conference_id # "0"}},
        d \in ListsUpTo(DivisionRecs, MaxFeed),
        s \in SeasonsResponses,
        t \in TeamsResponses}

\* what the client fetched for the game or games of a run of update_play_by_play
RunPayloads ==
    {p \in Payloads : p = <<>> \/ (p # [GC |-> <<>>] /\ Len(p.GC.Pxpverbose) = MaxEvents)}

\* what the client fetched for a run of update_players
RunPlayerPayloads ==
    {p \in PlayerPayloads :
        p = <<>> \/ (p.info.birthPlace # <<>> /\ p.info.nationality # <<>>)}

\* the limit argument of update_play_by_play: None or a count
Limits == {NoneInt} \cup {Some(n) : n \in 0..MaxLimit}

\* the first step of a run: its connection is opened
ConnectBy(op) ==
    /\ ~connOpen
    /\ connOpen' = TRUE
    /\ fkOn' = ForeignKeys(OpensWith(op))
    /\ dbFile' = IF dbFile = "absent" THEN "empty" ELSE dbFile
    /\ work' = disk
    /\ call' = [op |-> "connect", by |-> op, err |-> ""]
    /\ UNCHANGED <<disk, api, schema, indexes>>

Connect == \E op \in TopLevelRuns : ConnectBy(op)

\* the rest of a run: the try block gave r; an exception is logged, rolled
\* back and re-raised or not by the except block, and the finally block closes
\* the connection
RunEnds(op, input, r) ==
    /\ connOpen
    /\ call.op = "connect"
    /\ call.by = op
    /\ disk' = r.db
    /\ work' = r.db
    /\ connOpen' = FALSE
    /\ call' = [op |-> op, input |-> input, fetched |-> r.fetched,
                processed |-> r.processed, queried |-> r.queried, err |-> r.err,
                logged |-> r.err # "", rolledBack |-> r.err # "",
                raised |-> IF Reraises(op) THEN r.err ELSE "",
                ret |-> IF r.err # "" /\ Reraises(op) THEN NoneInt
                        ELSE IF r.err # "" THEN Some(0) ELSE Some(r.total)]
    /\ UNCHANGED <<dbFile, fkOn, api, schema, indexes>>

UpdateBasicInfo ==
    \E feed \in Feeds :
        RunEnds("update_basic_info", feed, update_basic_info(dbFile, disk, feed))

UpdatePlayByPlay ==
    \E game_id \in {0} \cup GameIds, limit \in Limits, pbp_data \in RunPayloads :
        RunEnds("update_play_by_play", <<game_id, limit, pbp_data>>,
                update_play_by_play(dbFile, disk, game_id, limit, pbp_data))

UpdatePlayers ==
    \E player_data \in RunPlayerPayloads :
        RunEnds("update_players", player_data, update_players(dbFile, disk, player_data))

NextRuns ==
    \/ Connect
    \/ SetupDatabase
    \/ UpdateBasicInfo
    \/ UpdatePlayByPlay
    \/ UpdatePlayers

SpecRuns == InitDb /\ [][NextRuns]_vars

\* a games row: final or not, with or without its two teams
GameRows ==
    {[season_id |-> 1, status |-> st, home_team |-> t[1], visiting_team |-> t[2]] :
        st \in GameStatuses, t \in {<<Some(1), Some(2)>>, <<NoneInt, NoneInt>>}}

\* the databases update_play_by_play finds: some games, stored by the games
\* scraper, and for some of them an event row of an earlier run
GameDatabases ==
    {[[EmptyDb EXCEPT !["games"] = games]
         EXCEPT !["pbp_shots"] = [k \in {<<g, "test">> : g \in withEvents} |->
                                     [game_id |-> k[1], season_id |-> 1]]] :
        games \in UNION {[G -> GameRows] : G \in SUBSET GameIds},
        withEvents \in SUBSET {1}}

InitGames ==
    /\ dbFile = "ready"
    /\ schema = DefaultSchema
    /\ indexes = SetupIndexes(DefaultSchema)
    /\ disk \in GameDatabases
    /\ work = disk
    /\ fkOn = FALSE
    /\ connOpen = FALSE
    /\ call = NoCall
    /\ api = ApiIdle

NextGames ==
    \/ ConnectBy("update_play_by_play")
    \/ UpdatePlayByPlay

\* update_play_by_play on a database that holds games
SpecGames == InitGames /\ [][NextGames]_vars

(***************************************************************************)
(* Claims about process_game_play_by_play                                  *)
(***************************************************************************)
\* the call ran the dispatch loop: the payload held an event list and the game
\* had both teams
LoopRan(c) == c.op = "process_game_play_by_play" /\ c.committed

\* the event list of the payload a call was given
EventsOf(c) == c.input[1].GC.Pxpverbose

TagOf(event) == Get(event, "event", PyNone)

\* the handler calls a run made for the event at position j
CallsAt(c, j) == {h \in DOMAIN c.handled : c.handled[h][1] = j}

\* C12: in process_game_play_by_play an exception raised while handling one
\* event is caught and logged, every later event of the list is still
\* dispatched to its handler, and the function commits and returns normally.
C12_LaterEventsDispatched ==
    LoopRan(call) =>
        /\ call.raised = ""
        /\ \A l \in DOMAIN call.logged :
               \A j \in (call.logged[l][1] + 1)..Len(EventsOf(call)) :
                   TagOf(EventsOf(call)[j]) \in KnownKinds =>
                       \E h \in CallsAt(call, j) :
                           call.handled[h][2] = TagOf(EventsOf(call)[j])

\* C13: each event whose tag is one of the eight known kinds is passed to
\* exactly the handler of that kind; an event with any other tag, or none,
\* causes no handler call, no write, no error and is not counted.
C13_DispatchByTag ==
    LoopRan(call) =>
        /\ \A j \in DOMAIN EventsOf(call) :
               IF TagOf(EventsOf(call)[j]) \in KnownKinds
               THEN /\ Cardinality(CallsAt(call, j)) = 1
                    /\ \A h \in CallsAt(call, j) :
                           call.handled[h][2] = TagOf(EventsOf(call)[j])
               ELSE /\ CallsAt(call, j) = {}
                    /\ j \notin call.counted
                    /\ \A l \in DOMAIN call.logged : call.logged[l][1] # j
        /\ (\A j \in DOMAIN EventsOf(call) : TagOf(EventsOf(call)[j]) \notin KnownKinds)
               => /\ StoredEvents(work) = call.storedBefore
                  /\ call.ret = 0

\* what the handler of an event adds to the count, and the rows it leaves
HandlerOutcome(db, r) ==
    [db |-> r.db,
     n |-> IF r.raised = "" /\ r.ret THEN 1 ELSE 0]

RECURSIVE HandledTrue(_, _, _, _, _)
\* the count once the first event left outcome o
HandledTrueAfter(o, events, game_id, season_id, teams) ==
    o.n + HandledTrue(o.db, events, game_id, season_id, teams)

\* the number of events of a recognized kind whose handler returns True when
\* the events are handled in order for a game with the teams given
HandledTrue(db, events, game_id, season_id, teams) ==
    IF events = <<>> THEN 0
    ELSE IF TagOf(Head(events)) \notin KnownKinds
    THEN HandledTrue(db, Tail(events), game_id, season_id, teams)
    ELSE HandledTrueAfter(
             HandlerOutcome(db, Handler(db, TagOf(Head(events)), Head(events), game_id,
                                        season_id, TeamArg("home_team", teams),
                                        TeamArg("visiting_team", teams))),
             Tail(events), game_id, season_id, teams)

\* C14: for a game in the games table with both teams set and a non-empty
\* payload, process_game_play_by_play returns the number of events of a
\* recognized kind whose handler returned True (one goal and one shot give 2).
C14_EventCount ==
    [][(LoopRan(call') /\ EventsOf(call') # <<>>) =>
           call'.ret = HandledTrue(work, EventsOf(call'), call'.input[2], 1,
                                   get_game_teams(work, call'.input[2]))]_vars

(***************************************************************************)
(* Claims about the basic-info scrapers, continued                         *)
(***************************************************************************)
\* the seasons rows whose current flag is set
CurrentSeasons(db) == {k \in Rows(db, "seasons") : db["seasons"][k].current = 1}

\* C15: after any sequence of update_seasons calls, each with a non-empty
\* season list and possibly different lists, exactly one row of the seasons
\* table has its current flag set.
C15_OneCurrentSeason ==
    (call.op = "update_seasons" /\ call.err = "" /\ call.input # <<>>)
        => Cardinality(CurrentSeasons(work)) = 1

(***************************************************************************)
(* Claims about the play-by-play handlers                                  *)
(***************************************************************************)
\* the rows of a handler's table that its existence check finds for the event
\* of the last handler call
StoredAs(c) == Matching(work, c.kind, c.input[2], c.input[1])

\* C16: two events of one game that a handler's own existence check treats as
\* different records get different synthesized ids, so the INSERT of the second
\* never collides with the first on the primary key and both end up stored.
C16_DistinctEventsStored ==
    (call.op = "process_event" /\ call.raised = "" /\ ~call.existed)
        => call.ret /\ StoredAs(call) # {}

\* the keys of table t that a step removes
KeysLost(t) == Rows(work, t) \ Rows(work', t)

\* C17 as stated: apart from reset_database no scraper operation deletes a row;
\* over any sequence of update_* and process_* operations the set of primary
\* keys of every table only grows.
C17_Original ==
    [][call'.op # "rollback" => \A t \in TableNames : KeysLost(t) = {}]_vars

\* C17, amended: the only rows an operation deletes are the plus and minus rows
\* of a goal, which process_goal deletes when it finds the goal already stored
\* (and inserts again from the event's lists); the keys of every other table
\* only grow.
C17_OnlyGoalPlayersDeleted ==
    [][call'.op # "rollback" =>
           /\ \A t \in TableNames \ GoalSubTables : KeysLost(t) = {}
           /\ \A t \in GoalSubTables : \A k \in KeysLost(t) :
                  /\ call'.op = "process_event"
                  /\ call'.kind = "goal"
                  /\ call'.existed
                  /\ work[t][k].goal_id = EventId("goal", call'.input[2], call'.input[1])]_vars

\* a stored goal was processed again and rows of its plus list are gone, while
\* another goal's rows are still there
C17_Witness ==
    /\ call.op = "process_event"
    /\ call.kind = "goal"
    /\ call.existed
    /\ call.ret
    /\ Cardinality(StoredGoalPlayers(work)) < call.subRowsBefore
    /\ StoredGoalPlayers(work) # {}
    /\ RowCount(work, "leagues") > 0

(***************************************************************************)
(* Claims about the top-level runs and their connections                   *)
(***************************************************************************)
\* C18: when a database error occurs inside a top-level scraper run
\* (update_basic_info, update_play_by_play, update_players), the error is
\* logged, the open transaction is rolled back and the exception is re-raised
\* to the caller, not swallowed.
C18_LoggedRolledBackReraised ==
    (call.op \in TopLevelRuns /\ call.err \in DatabaseErrors)
        => /\ call.logged
           /\ call.rolledBack
           /\ work = disk
           /\ call.raised = call.err

\* the well-formed records of a list: those whose id is numeric and not zero
WellFormedIds(op, data) ==
    {IntField(data[i], IF op = "update_conferences" THEN "conference_id" ELSE "id").val :
        i \in {j \in DOMAIN data :
                  LET id == IntField(data[j], IF op = "update_conferences"
                                              THEN "conference_id" ELSE "id")
                  IN id.ok /\ id.val # 0}}

\* C19: when one record of the list given to update_leagues,
\* update_conferences, update_divisions or update_seasons is malformed (its id
\* is not numeric), that record is skipped and every well-formed record of the
\* list, before and after it, is still stored and committed.
C19_MalformedRecordSkipped ==
    (call.op \in {"update_leagues", "update_conferences", "update_divisions",
                  "update_seasons"})
        => /\ call.err = ""
           /\ WellFormedIds(call.op, call.input) \subseteq Rows(disk, call.table)

\* C20: every connection that update_basic_info, update_play_by_play,
\* update_players or setup_database opens has foreign-key enforcement turned
\* on before any statement is executed on it.
C20_ForeignKeysOn ==
    /\ (connOpen /\ call.op = "connect") => fkOn
    /\ (call.op = "setup_database") => call.foreign_keys

(***************************************************************************)
(* Claims about the parent keys of conferences and divisions               *)
(***************************************************************************)
\* the records of the last call's list that were stored under id
RecordsOf(c, key, id) ==
    {i \in DOMAIN c.input : IntField(c.input[i], key).ok /\ IntField(c.input[i], key).val = id}

\* C21: update_conferences stores each conference together with the league id
\* it belongs to, and update_divisions stores each division together with its
\* league id and its conference_id, each returning the number of records
\* stored.
C21_ParentKeysStored ==
    /\ (call.op = "update_conferences" /\ call.err = "") =>
           /\ call.ret = Some(Cardinality({i \in DOMAIN call.input :
                                               IntField(call.input[i], "conference_id").val # 0}))
           /\ \A id \in WellFormedIds(call.op, call.input) :
                  work["conferences"][id].league_id \in {Some(l) : l \in LeagueIds}
    /\ (call.op = "update_divisions" /\ call.err = "") =>
           /\ call.ret = Some(Cardinality({i \in DOMAIN call.input :
                                               IntField(call.input[i], "id").val # 0}))
           /\ \A id \in WellFormedIds(call.op, call.input) :
                  /\ work["divisions"][id].league_id \in {Some(l) : l \in LeagueIds}
                  /\ \E i \in RecordsOf(call, "id", id) :
                         work["divisions"][id].conference_id =
                             Some(IntField(call.input[i], "conference_id").val)

Differs(column, fields, stored) ==
    /\ fields[column] # stored[column]
    /\ column \in {"hometown", "hometown_div", "nationality", "weight_kg", "height_cm"}
           => Truthy(column, fields[column])

\* what the claim requires of a call that found the row `stored`, extracted
\* `fields`, left the row `written` and recorded `c`
DiffUpdate(fields, stored, written, c) ==
    /\ c.changes = {col \in PlayerColumns : Differs(col, fields, stored)}
    /\ c.ret = (c.changes # {})
    /\ \A col \in PlayerColumns :
           written[col] = IF Differs(col, fields, stored) THEN fields[col] ELSE stored[col]

\* C26: when update_player is called for an existing player and no extracted
\* field differs from the stored row (after applying the preserve-list rule),
\* it issues no UPDATE, leaves the row unchanged and returns False; when some
\* fields differ, exactly the differing columns are written and every other
\* column of the row keeps its stored value.
C26_PlayerDiffUpdate ==
    [][(call'.op = "update_player" /\ call'.existed)
       => /\ DiffUpdate(extract_player_fields(call'.input),
                        work["players"][PlayerIdOf(call'.input)],
                        work'["players"][PlayerIdOf(call'.input)], call')
          /\ call'.changes = {} => (work' = work /\ disk' = disk)
          /\ \A other \in Rows(work, "players") \ {PlayerIdOf(call'.input)} :
                 work'["players"][other] = work["players"][other]
      ]_vars

\* a stored player was sent again unchanged: no UPDATE, False
C26_Witness ==
    /\ call.op = "update_player"
    /\ call.existed
    /\ call.changes = {}
    /\ ~call.ret
    /\ work["players"][PlayerIdOf(call.input)].first_name = "Jane"
    /\ work["players"][PlayerIdOf(call.input)].hometown = "Toronto"
    /\ ApiEmpty("hometown", call.input)

(***************************************************************************)
(* Claims about the top-level runs                                         *)
(***************************************************************************)
\* the records a seasons or teams response carries, under either nesting
RecordsIn(response, key, nested) ==
    IF key \in DOMAIN response THEN response[key]
    ELSE IF "SiteKit" \in DOMAIN response THEN response.SiteKit[nested]
    ELSE <<>>

\* every response of the feed carries one record, each with a numeric id
\* other than 0 where its scraper reads one
OneRecordEach(feed) ==
    /\ Len(feed.leagues) = 1 /\ IntField(feed.leagues[1], "id").val # 0
    /\ Len(feed.conferences) = 1
    /\ Len(feed.divisions) = 1 /\ IntField(feed.divisions[1], "id").val # 0
    /\ Len(RecordsIn(feed.seasons, "seasons", "Seasons")) = 1
    /\ Len(RecordsIn(feed.teams, "teams", "Teamsbyseason")) = 1
    /\ IntField(RecordsIn(feed.teams, "teams", "Teamsbyseason")[1], "id").val # 0

\* C23: one call of update_basic_info in which the bootstrap, seasons and teams
\* responses each carry one record calls fetch_basic_info, fetch_seasons_list
\* and fetch_teams_by_season exactly once each, in that order, and returns the
\* sum of the leagues, conferences, divisions, seasons and teams counts (at
\* least 5).
C23_FullBasicInfoRun ==
    (call.op = "update_basic_info" /\ dbFile = "ready" /\ OneRecordEach(call.input))
        => /\ call.fetched = <<"fetch_basic_info", "fetch_seasons_list",
                               "fetch_teams_by_season">>
           /\ call.err = ""
           /\ call.ret # NoneInt
           /\ call.ret[1] >= 5

\* C24: update_play_by_play called with a game_id whose season is found
\* processes exactly that one game (no backfill query, no other game) and
\* returns the event count process_game_play_by_play reported for it; when the
\* game's season cannot be found it processes nothing and returns 0.
C24_SingleGameUpdate ==
    [][(call'.op = "update_play_by_play" /\ call'.input[1] # 0 /\ dbFile = "ready")
       => /\ ~call'.queried
          /\ call'.err = ""
          /\ IF get_season_id_for_game(disk, call'.input[1]) # NoneInt
             THEN /\ Len(call'.processed) = 1
                  /\ call'.processed[1][1] = call'.input[1]
                  /\ call'.processed[1][2] = disk["games"][call'.input[1]].season_id
                  /\ call'.processed[1][3] =
                         process_game_play_by_play(disk, call'.input[3], call'.input[1],
                                                   call'.processed[1][2]).count
                  /\ call'.ret = Some(call'.processed[1][3])
             ELSE /\ call'.processed = <<>>
                  /\ call'.ret = Some(0)
                  /\ disk' = disk
      ]_vars

\* games 1 and 2 are final and have no events; the run was asked for game 2 and
\* processed game 2 alone
C24_Witness ==
    /\ call.op = "update_play_by_play"
    /\ call.input[1] = 2
    /\ call.input[3] # <<>>
    /\ get_games_without_play_by_play(disk) = <<<<1, 1>>, <<2, 1>>>>
    /\ TruthyInt(disk["games"][2].home_team)
    /\ Len(call.processed) = 1
    /\ call.processed[1][1] = 2
    /\ ~call.queried
    /\ ~connOpen

RECURSIVE SumCounts(_)
\* the sum of the per-game event counts of a run
SumCounts(processed) ==
    IF processed = <<>> THEN 0 ELSE Head(processed)[3] + SumCounts(Tail(processed))

\* the first n entries of a list, all of it when it has fewer
FirstN(list, n) == SubSeq(list, 1, IF n < Len(list) THEN n ELSE Len(list))

\* C29: update_play_by_play called without a game_id processes the games
\* returned by get_games_without_play_by_play in ascending game-id order, each
\* at most once, and when a limit is given processes only the first `limit` of
\* them; its return value is the sum of the per-game event counts, and the
\* connection is closed on every exit path.
C29_BackfillRun ==
    [][(call'.op = "update_play_by_play" /\ call'.input[1] = 0)
       => /\ ~connOpen'
          /\ call'.err = ""
               => /\ call'.queried
                  /\ [i \in DOMAIN call'.processed |->
                          <<call'.processed[i][1], call'.processed[i][2]>>] =
                         IF call'.input[2] = NoneInt
                         THEN get_games_without_play_by_play(disk)
                         ELSE FirstN(get_games_without_play_by_play(disk),
                                     call'.input[2][1])
                  /\ \A i, j \in DOMAIN call'.processed :
                         i < j => call'.processed[i][1] < call'.processed[j][1]
                  /\ call'.ret = Some(SumCounts(call'.processed))
      ]_vars

(***************************************************************************)
(* Claims about the requests of the client                                 *)
(***************************************************************************)
\* C25: every request fetch_data issues goes to base URL + endpoint and carries
\* the default parameters key and client_code; when the caller passes
\* endpoint-specific parameters, the request's parameters are exactly the
\* default parameters merged with the caller's parameters.
C25_RequestParameters ==
    api.requests > 0 =>
        /\ api.sent.url = <<base_url, api.endpoint>>
        /\ {"key", "client_code"} \subseteq DOMAIN api.sent.params
        /\ DOMAIN api.sent.params = {"key", "client_code"} \cup DOMAIN api.params
        /\ \A k \in DOMAIN api.params : api.sent.params[k] = api.params[k]
        /\ \A k \in {"key", "client_code"} \ DOMAIN api.params :
               api.sent.params[k] = default_params[k]

\* a retried fetch with the caller's param1 and param2: its second request went
\* out with the four parameters
C25_Witness ==
    /\ api.requests = 2
    /\ api.endpoint = "endpoint"
    /\ api.params = [param1 |-> "value1", param2 |-> "value2"]
    /\ api.sent.params = [key |-> "HOCKEYTECH_KEY", client_code |-> "CLIENT_CODE",
                          param1 |-> "value1", param2 |-> "value2"]

(***************************************************************************)
(* Claims about update_seasons and the skipped records                     *)
(***************************************************************************)
\* the positions of the list that carry the marker of the current season
MarkedAt(seasons_data) ==
    {i \in DOMAIN seasons_data :
        "current" \in DOMAIN seasons_data[i] /\ seasons_data[i].current \in {"1", PyTrue}}

SeasonIdAt(seasons_data, i) == IntField(seasons_data[i], "id").val

\* the id the claim selects: that of the first marked season, else the highest
SelectedSeason(seasons_data) ==
    IF MarkedAt(seasons_data) # {}
    THEN SeasonIdAt(seasons_data,
                    CHOOSE i \in MarkedAt(seasons_data) :
                        \A j \in MarkedAt(seasons_data) : i <= j)
    ELSE CHOOSE m \in {SeasonIdAt(seasons_data, i) : i \in DOMAIN seasons_data} :
             \A i \in DOMAIN seasons_data : SeasonIdAt(seasons_data, i) <= m

\* C27: within one update_seasons call the season flagged current is the first
\* season in the input list whose `current` field is "1" or True; if no season
\* carries that marker, it is the season with the highest id in the list; every
\* other season written by that call gets current = 0.
C27_CurrentSeasonSelection ==
    (call.op = "update_seasons" /\ call.err = "" /\ call.input # <<>>)
        => \A i \in DOMAIN call.input :
               SeasonIdAt(call.input, i) # 0
                   => work["seasons"][SeasonIdAt(call.input, i)].current =
                          IF SeasonIdAt(call.input, i) = SelectedSeason(call.input)
                          THEN 1 ELSE 0

\* seasons 1 and 2 both carry the marker, season 1 first: season 1 is current
\* and season 2, although its id is higher, is not
C27_Witness ==
    /\ call.op = "update_seasons"
    /\ call.err = ""
    /\ Len(call.input) = 2
    /\ MarkedAt(call.input) = {1, 2}
    /\ SeasonIdAt(call.input, 1) = 1
    /\ SeasonIdAt(call.input, 2) = 2
    /\ work["seasons"][1].current = 1
    /\ work["seasons"][2].current = 0

(***************************************************************************)
(* Claims about the plus and minus rows of a goal                          *)
(***************************************************************************)
\* the rows of table t that belong to the goal
GoalRows(db, t, goal_id) == {k \in DOMAIN db[t] : db[t][k].goal_id = goal_id}

\* the distinct players of a list of the event
ListedPlayers(event, list) ==
    {IntField(Get(event, list, <<>>)[i], "player_id").val :
        i \in DOMAIN Get(event, list, <<>>)}

\* the rows of t for the goal are one row per distinct player of the list
OneRowPerPlayer(db, t, goal_id, event, list) ==
    /\ {db[t][k].player_id : k \in GoalRows(db, t, goal_id)} = ListedPlayers(event, list)
    /\ Cardinality(GoalRows(db, t, goal_id)) = Cardinality(ListedPlayers(event, list))

\* C28: after process_goal succeeds for a goal event, whether the goal row was
\* inserted or updated, the pbp_goals_plus rows for that goal are exactly one
\* row per distinct player in the event's `plus` list and the pbp_goals_minus
\* rows exactly one row per distinct player in its `minus` list; rows left
\* from an earlier version of the same goal for players no longer listed are
\* gone.
C28_GoalPlusMinusRows ==
    (call.op = "process_goal" /\ call.raised = "" /\ call.ret)
        => /\ OneRowPerPlayer(work, "pbp_goals_plus",
                              EventId("goal", call.input[2], call.input[1]),
                              call.input[1], "plus")
           /\ OneRowPerPlayer(work, "pbp_goals_minus",
                              EventId("goal", call.input[2], call.input[1]),
                              call.input[1], "minus")

\* goal 1 of game 1 was stored with plus and minus rows; its later version lists
\* player 8 twice and nobody under minus, and the goal has the one plus row of
\* player 8 left
C28_Witness ==
    /\ call.op = "process_goal"
    /\ call.existed
    /\ call.ret
    /\ call.input[2] = 1
    /\ call.input[1].id = "1"
    /\ Len(Get(call.input[1], "plus", <<>>)) = 2
    /\ ListedPlayers(call.input[1], "plus") = {8}
    /\ ListedPlayers(call.input[1], "minus") = {}
    /\ Cardinality(GoalRows(work, "pbp_goals_plus", EventId("goal", 1, call.input[1]))) = 1
    /\ GoalRows(work, "pbp_goals_minus", EventId("goal", 1, call.input[1])) = {}
    /\ StoredGoalPlayers(work) # GoalRows(work, "pbp_goals_plus",
                                          EventId("goal", 1, call.input[1]))

\* the id of a record of the list given to a scraper
RecordId(op, record) ==
    IntField(record, IF op = "update_conferences" THEN "conference_id" ELSE "id").val

\* the positions of the records with an id other than 0
WithId(op, data) == {i \in DOMAIN data : RecordId(op, data[i]) # 0}

====
